---- MODULE Spec2Model ----
(***************************************************************************)
(* Model of the log analyzer: the timestamp extractor and date helpers of  *)
(* src/utils/dateTimeParser.ts and the session component of                *)
(* src/components/LogAnalyzer.tsx (analysis of a file, the session's file  *)
(* collection, the filter state and the derived filtered view).            *)
(*                                                                         *)
(* Text is modelled by TLA+ strings at character level: includes, trim,    *)
(* split, toLowerCase and the six regular expressions are computed on the  *)
(* characters.  A Date is the record [day, ms]: the day number of the      *)
(* local calendar day (days since 1970-01-01) and the millisecond within   *)
(* that day; comparing two Dates compares their time values.               *)
(***************************************************************************)
EXTENDS Integers, Sequences, FiniteSets, TLC

VARIABLES
    files,          \* useState<LogFile[]>: the session's file collection
    reading,        \* the FileReaders whose onload has not fired yet
    searchQuery,    \* useState(''): free-text query
    selectedFilter, \* useState('all'): category filter
    startDateTime,  \* useState<Date | null>: lower datetime bound
    endDateTime,    \* useState<Date | null>: upper datetime bound
    now,            \* the wall clock read by new Date() / Date.now()
    tz,             \* minutes the local zone is ahead of UTC
    line,           \* a single line handed to the extractor and classifier
    lineOut,        \* what extractTimestampFromLine returned for it
    lineType,       \* the category assigned to it
    pc,             \* position of the run
    expandedFiles,  \* useState<Set<string>>: ids of the expanded cards
    fileList        \* the FileList handed to handleFileUpload

vars == <<files, reading, searchQuery, selectedFilter, startDateTime,
          endDateTime, now, tz, line, lineOut, lineType, pc, expandedFiles,
          fileList>>

-----------------------------------------------------------------------------
(* JavaScript values *)

Null == [null |-> TRUE]

InvalidDate == [nan |-> TRUE]

\* undefined where a string is expected: a text that no pattern matches.
Undefined == "undefined"

-----------------------------------------------------------------------------
(* String primitives *)

CharAt(s, i) == SubSeq(s, i, i)

UpperAlphabet == "ABCDEFGHIJKLMNOPQRSTUVWXYZ"

LowerAlphabet == "abcdefghijklmnopqrstuvwxyz"

DigitChars == "0123456789"

InChars(c, chars) == \E k \in 1..Len(chars) : CharAt(chars, k) = c

IndexIn(c, chars) == CHOOSE k \in 1..Len(chars) : CharAt(chars, k) = c

\* The lower-case letter of every upper-case letter.
LowerOf ==
    [c \in {CharAt(UpperAlphabet, k) : k \in 1..Len(UpperAlphabet)} |->
        CharAt(LowerAlphabet, IndexIn(c, UpperAlphabet))]

toLowerCaseChar(c) == IF c \in DOMAIN LowerOf THEN LowerOf[c] ELSE c

RECURSIVE toLowerCase(_)
toLowerCase(s) ==
    IF s = "" THEN ""
    ELSE toLowerCaseChar(CharAt(s, 1)) \o toLowerCase(SubSeq(s, 2, Len(s)))

\* String.prototype.includes: literal substring test.
includes(s, sub) ==
    \E i \in 1..(Len(s) - Len(sub) + 1) : SubSeq(s, i, i + Len(sub) - 1) = sub

IsWhiteSpace(c) == c \in {" ", "\t", "\r", "\n", "\f"}

\* String.prototype.trim: drops leading and trailing white space.
trim(s) ==
    IF \A i \in 1..Len(s) : IsWhiteSpace(CharAt(s, i)) THEN ""
    ELSE LET first == CHOOSE i \in 1..Len(s) :
                         /\ ~IsWhiteSpace(CharAt(s, i))
                         /\ \A j \in 1..(i - 1) : IsWhiteSpace(CharAt(s, j))
             last  == CHOOSE i \in 1..Len(s) :
                         /\ ~IsWhiteSpace(CharAt(s, i))
                         /\ \A j \in (i + 1)..Len(s) : IsWhiteSpace(CharAt(s, j))
         IN  SubSeq(s, first, last)

\* String.prototype.split('\n'): always at least one piece.
RECURSIVE split(_)
split(s) ==
    IF ~includes(s, "\n") THEN <<s>>
    ELSE LET i == CHOOSE k \in 1..Len(s) :
                     /\ CharAt(s, k) = "\n"
                     /\ \A j \in 1..(k - 1) : CharAt(s, j) # "\n"
         IN  <<SubSeq(s, 1, i - 1)>> \o split(SubSeq(s, i + 1, Len(s)))

\* String.prototype.replace(/[[]]/g, ''): the pattern is the class [[]
\* followed by a literal ], so it deletes every occurrence of "[]".
RECURSIVE replaceBracketPattern(_)
replaceBracketPattern(s) ==
    IF Len(s) < 2 THEN s
    ELSE IF SubSeq(s, 1, 2) = "[]" THEN replaceBracketPattern(SubSeq(s, 3, Len(s)))
    ELSE CharAt(s, 1) \o replaceBracketPattern(SubSeq(s, 2, Len(s)))

IsDigit(c) == InChars(c, DigitChars)

\* \w of a regular expression.
IsWordChar(c) ==
    InChars(c, UpperAlphabet) \/ InChars(c, LowerAlphabet) \/ IsDigit(c) \/ c = "_"

RECURSIVE parseInt(_)
parseInt(s) ==
    IF s = "" THEN 0
    ELSE 10 * parseInt(SubSeq(s, 1, Len(s) - 1))
         + (IndexIn(CharAt(s, Len(s)), DigitChars) - 1)

-----------------------------------------------------------------------------
(* Calendar arithmetic of the Date object (proleptic Gregorian calendar) *)

MsPerDay == 86400000

MsPerMinute == 60000

IsLeapYear(y) == (y % 4 = 0 /\ y % 100 # 0) \/ y % 400 = 0

DaysInMonth(y, m) ==
    IF m = 2 THEN (IF IsLeapYear(y) THEN 29 ELSE 28)
    ELSE IF m \in {4, 6, 9, 11} THEN 30 ELSE 31

\* Day number (days since 1970-01-01) of the calendar day y-m-d.
DaysFromCivil(y, m, d) ==
    LET yy  == IF m <= 2 THEN y - 1 ELSE y
        era == yy \div 400
        yoe == yy - era * 400
        mp  == IF m > 2 THEN m - 3 ELSE m + 9
        doy == (153 * mp + 2) \div 5 + d - 1
        doe == yoe * 365 + yoe \div 4 - yoe \div 100 + doy
    IN  era * 146097 + doe - 719468

\* Calendar day <<year, month, day>> of a day number.
CivilFromDays(z) ==
    LET zz  == z + 719468
        era == zz \div 146097
        doe == zz - era * 146097
        yoe == (doe - doe \div 1460 + doe \div 36524 - doe \div 146096) \div 365
        doy == doe - (365 * yoe + yoe \div 4 - yoe \div 100)
        mp  == (5 * doy + 2) \div 153
        d   == doy - (153 * mp + 2) \div 5 + 1
        m   == IF mp < 10 THEN mp + 3 ELSE mp - 9
        y   == yoe + era * 400
    IN  <<IF m <= 2 THEN y + 1 ELSE y, m, d>>

getFullYear(date) == CivilFromDays(date.day)[1]

\* The Date of local calendar fields, shifted by shiftMin minutes.
MakeDate(y, mo, d, h, mi, sec, ms, shiftMin) ==
    LET t == ((h * 60 + mi) * 60 + sec) * 1000 + ms + shiftMin * MsPerMinute
    IN  [day |-> DaysFromCivil(y, mo, d) + (t \div MsPerDay), ms |-> t % MsPerDay]

IsValidDate(date) == date # Null /\ date # InvalidDate

\* date < other on two valid Dates (comparison of the time values).
DateLess(date, other) ==
    date.day < other.day \/ (date.day = other.day /\ date.ms < other.ms)

\* Day number of day dayOfMonth of the 0-based month month0 of year; a
\* month or a day outside its range rolls over into the following ones.
MakeDay(year, month0, dayOfMonth) ==
    DaysFromCivil(year + month0 \div 12, (month0 % 12) + 1, 1) + dayOfMonth - 1

getMonth(date) == CivilFromDays(date.day)[2] - 1

getDate(date) == CivilFromDays(date.day)[3]

getHours(date) == date.ms \div 3600000

getMinutes(date) == (date.ms % 3600000) \div MsPerMinute

setFullYear(date, year) ==
    [date EXCEPT !.day = MakeDay(year, getMonth(date), getDate(date))]

setMonth(date, month0) ==
    [date EXCEPT !.day = MakeDay(getFullYear(date), month0, getDate(date))]

setDate(date, dayOfMonth) ==
    [date EXCEPT !.day = MakeDay(getFullYear(date), getMonth(date), dayOfMonth)]

\* date.setHours(h, m, 0, 0)
setHours(date, h, m) == [date EXCEPT !.ms = (h * 60 + m) * MsPerMinute]

-----------------------------------------------------------------------------
(* Regular expressions of TIMESTAMP_PATTERNS *)

\* One position of a pattern: d is \d, w is \w, s is [T ], p is [+-],
\* any other character stands for itself.
ClassMatches(k, c) ==
    CASE k = "d" -> IsDigit(c)
      [] k = "w" -> IsWordChar(c)
      [] k = "s" -> c \in {"T", " "}
      [] k = "p" -> c \in {"+", "-"}
      [] OTHER   -> c = k

\* The fixed-width pattern tpl matches s at position i.
TemplateAt(s, i, tpl) ==
    /\ i >= 1
    /\ i + Len(tpl) - 1 <= Len(s)
    /\ \A k \in 1..Len(tpl) : ClassMatches(CharAt(tpl, k), CharAt(s, i + k - 1))

MonthNames == <<"Jan", "Feb", "Mar", "Apr", "May", "Jun",
                "Jul", "Aug", "Sep", "Oct", "Nov", "Dec">>

IsMonthNameAt(s, i) ==
    i + 2 <= Len(s) /\ \E m \in 1..12 : SubSeq(s, i, i + 2) = MonthNames[m]

MonthNumber(name) == CHOOSE m \in 1..12 : MonthNames[m] = name

\* Length of the (greedy) match of the ISO 8601 pattern at position i, else 0.
IsoMatchLen(s, i) ==
    IF ~TemplateAt(s, i, "dddd-dd-ddsdd:dd:dd") THEN 0
    ELSE LET frac == IF TemplateAt(s, i + 19, ".ddd") THEN 4 ELSE 0
             zone == IF TemplateAt(s, i + 19 + frac, "Z") THEN 1
                     ELSE IF TemplateAt(s, i + 19 + frac, "pdd:dd") THEN 6
                     ELSE 0
         IN  19 + frac + zone

\* Length of the match of the syslog pattern at position i, else 0.
SyslogMatchLen(s, i) ==
    IF ~IsMonthNameAt(s, i) THEN 0
    ELSE IF TemplateAt(s, i + 3, " dd dd:dd:dd") THEN 15
    ELSE IF TemplateAt(s, i + 3, " d dd:dd:dd") THEN 14
    ELSE 0

TemplateLen(s, i, tpl) == IF TemplateAt(s, i, tpl) THEN Len(tpl) ELSE 0

\* Length of the match of the named shape at position i of s, 0 when it
\* does not match there.
ShapeMatchLen(shape, s, i) ==
    CASE shape = "iso"      -> IsoMatchLen(s, i)
      [] shape = "standard" -> TemplateLen(s, i, "dddd-dd-dd dd:dd:dd")
      [] shape = "millis"   -> TemplateLen(s, i, "dddd-dd-dd dd:dd:dd.ddd")
      [] shape = "us"       -> TemplateLen(s, i, "dd/dd/dddd dd:dd:dd")
      [] shape = "syslog"   -> SyslogMatchLen(s, i)
      [] shape = "apache"   -> TemplateLen(s, i, "[dd/www/dddd:dd:dd:dd pdddd]")

\* A plausible slip: the syslog shape listed before the ISO shapes.
TIMESTAMP_PATTERNS_SyslogFirst ==
    <<"syslog", "iso", "standard", "millis", "us", "apache">>

\* The array of patterns, each named by its shape, in the array's order.
TIMESTAMP_PATTERNS == <<"iso", "standard", "millis", "us", "syslog", "apache">>

PatternMatchLen(p, s, i) == ShapeMatchLen(TIMESTAMP_PATTERNS[p], s, i)

\* line.match(pattern) with the g flag, then matches[0]: the text of the
\* leftmost match of pattern p, the empty (falsy) text when there is none.
firstMatch(p, s) ==
    IF \A i \in 1..Len(s) : PatternMatchLen(p, s, i) = 0 THEN ""
    ELSE LET i == CHOOSE k \in 1..Len(s) :
                     /\ PatternMatchLen(p, s, k) > 0
                     /\ \A j \in 1..(k - 1) : PatternMatchLen(p, s, j) = 0
         IN  SubSeq(s, i, i + PatternMatchLen(p, s, i) - 1)

-----------------------------------------------------------------------------
(* new Date(string) *)

\* The fields the parser accepts.  A day up to 31 is accepted in every
\* month; one past the end of the month falls into the following month.
ValidFields(y, mo, d, h, mi, sec) ==
    /\ mo \in 1..12
    /\ d \in 1..31
    /\ h \in 0..23
    /\ mi \in 0..59
    /\ sec \in 0..59

\* "YYYY-MM-DD[T ]HH:MM:SS[.mmm][Z|+hh:mm]": local time unless a zone
\* designator is present.
NewDateIso(str) ==
    LET y    == parseInt(SubSeq(str, 1, 4))
        mo   == parseInt(SubSeq(str, 6, 7))
        d    == parseInt(SubSeq(str, 9, 10))
        h    == parseInt(SubSeq(str, 12, 13))
        mi   == parseInt(SubSeq(str, 15, 16))
        sec  == parseInt(SubSeq(str, 18, 19))
        frac == TemplateAt(str, 20, ".ddd")
        ms   == IF frac THEN parseInt(SubSeq(str, 21, 23)) ELSE 0
        z    == IF frac THEN 24 ELSE 20
        utc  == TemplateAt(str, z, "Z")
        off  == TemplateAt(str, z, "pdd:dd")
        oh   == IF off THEN parseInt(SubSeq(str, z + 1, z + 2)) ELSE 0
        om   == IF off THEN parseInt(SubSeq(str, z + 4, z + 5)) ELSE 0
        east == IF off /\ CharAt(str, z) = "-" THEN 0 - (oh * 60 + om) ELSE oh * 60 + om
    IN  IF ~ValidFields(y, mo, d, h, mi, sec) \/ oh > 23 \/ om > 59 THEN InvalidDate
        ELSE IF utc \/ off THEN MakeDate(y, mo, d, h, mi, sec, ms, tz - east)
        ELSE MakeDate(y, mo, d, h, mi, sec, ms, 0)

\* "MM/DD/YYYY HH:MM:SS": local time.
NewDateUs(str) ==
    LET mo  == parseInt(SubSeq(str, 1, 2))
        d   == parseInt(SubSeq(str, 4, 5))
        y   == parseInt(SubSeq(str, 7, 10))
        h   == parseInt(SubSeq(str, 12, 13))
        mi  == parseInt(SubSeq(str, 15, 16))
        sec == parseInt(SubSeq(str, 18, 19))
    IN  IF ValidFields(y, mo, d, h, mi, sec)
        THEN MakeDate(y, mo, d, h, mi, sec, 0, 0) ELSE InvalidDate

\* "Mon D HH:MM:SS YYYY": local time.
NewDateNamedMonth(str) ==
    LET n   == Len(str)
        mo  == MonthNumber(SubSeq(str, 1, 3))
        d   == parseInt(SubSeq(str, 5, n - 14))
        h   == parseInt(SubSeq(str, n - 12, n - 11))
        mi  == parseInt(SubSeq(str, n - 9, n - 8))
        sec == parseInt(SubSeq(str, n - 6, n - 5))
        y   == parseInt(SubSeq(str, n - 3, n))
    IN  IF ValidFields(y, mo, d, h, mi, sec)
        THEN MakeDate(y, mo, d, h, mi, sec, 0, 0) ELSE InvalidDate

\* new Date(str) on the texts the extractor hands to it.  A text outside
\* the three date-time forms (the bracketed Apache text among them) is not
\* a date-time string and gives an Invalid Date.
NewDate(str) ==
    IF Len(str) >= 19 /\ IsoMatchLen(str, 1) = Len(str) THEN NewDateIso(str)
    ELSE IF TemplateAt(str, 1, "dd/dd/dddd dd:dd:dd") /\ Len(str) = 19 THEN NewDateUs(str)
    ELSE IF /\ SyslogMatchLen(str, 1) > 0
            /\ SyslogMatchLen(str, 1) + 5 = Len(str)
            /\ TemplateAt(str, Len(str) - 4, " dddd")
         THEN NewDateNamedMonth(str)
    ELSE InvalidDate

-----------------------------------------------------------------------------
(* extractTimestampFromLine *)

\* timestampStr.match(/^\w{3} \d{1,2} \d{2}:/)
LooksLikeSyslog(timestampStr) ==
    \/ TemplateAt(timestampStr, 1, "www dd dd:")
    \/ TemplateAt(timestampStr, 1, "www d dd:")

\* A plausible slip: the year before the current one appended.
dateText_PreviousYear(timestampStr) ==
    IF includes(timestampStr, "/")
    THEN IF includes(timestampStr, "[") \/ includes(timestampStr, "+")
         THEN replaceBracketPattern(timestampStr)
         ELSE timestampStr
    ELSE IF LooksLikeSyslog(timestampStr)
         THEN timestampStr \o " " \o ToString(getFullYear(now) - 1)
         ELSE timestampStr

\* The text handed to new Date for a matched timestampStr.
dateText(timestampStr) ==
    IF includes(timestampStr, "/")
    THEN IF includes(timestampStr, "[") \/ includes(timestampStr, "+")
         THEN replaceBracketPattern(timestampStr)
         ELSE timestampStr
    ELSE IF LooksLikeSyslog(timestampStr)
         THEN timestampStr \o " " \o ToString(getFullYear(now))
         ELSE timestampStr

\* A plausible slip: the result is returned without the isNaN test.
validated_Unchecked(timestampStr, parsedDate) ==
    [original |-> timestampStr, parsed |-> parsedDate, lineNumber |-> 0]

\* The validation at the end of the loop body: the result record for a
\* valid parsedDate, Null (and on to the next pattern) otherwise.
validated(timestampStr, parsedDate) ==
    IF IsValidDate(parsedDate)
    THEN [original |-> timestampStr, parsed |-> parsedDate, lineNumber |-> 0]
    ELSE Null

\* The body of the loop for a pattern whose leftmost match is timestampStr:
\* Null when there is no match or the match does not parse.
tryMatch(timestampStr) ==
    IF timestampStr = "" THEN Null
    ELSE validated(timestampStr, NewDate(dateText(timestampStr)))

\* The loop over TIMESTAMP_PATTERNS from pattern p on, found being the
\* outcome of the body for pattern p.
RECURSIVE extractFrom(_, _, _)
extractFrom(p, ln, found) ==
    IF found # Null THEN found
    ELSE IF p >= Len(TIMESTAMP_PATTERNS) THEN Null
    ELSE extractFrom(p + 1, ln, tryMatch(firstMatch(p + 1, ln)))

\* A plausible slip: a pattern whose leftmost match does not parse is
\* tried again on its later matches before the next pattern has its turn.
extractTimestampFromLine_ScanOn(ln) ==
    LET textAt(h) == SubSeq(ln, h[2], h[2] + PatternMatchLen(h[1], ln, h[2]) - 1)
        hits == {h \in (1..Len(TIMESTAMP_PATTERNS)) \X (1..Len(ln)) :
                    /\ PatternMatchLen(h[1], ln, h[2]) > 0
                    /\ IsValidDate(NewDate(dateText(textAt(h))))}
    IN  IF hits = {} THEN Null
        ELSE LET first == CHOOSE h \in hits : \A g \in hits :
                              h[1] < g[1] \/ (h[1] = g[1] /\ h[2] <= g[2])
             IN  validated(textAt(first), NewDate(dateText(textAt(first))))

extractTimestampFromLine(ln) == extractFrom(1, ln, tryMatch(firstMatch(1, ln)))

-----------------------------------------------------------------------------
(* The category of a line (the chained conditionals of analyzeLogContent) *)

Categories == {"error", "warning", "success", "info"}

\* A plausible slip: the warning keywords tested before the error keywords.
classify_WarningFirst(ln) ==
    LET lowerLine == toLowerCase(ln)
    IN  IF \/ includes(lowerLine, "warning")
           \/ includes(lowerLine, "warn")
           \/ includes(lowerLine, "notice")
        THEN "warning"
        ELSE IF \/ includes(lowerLine, "critical")
                \/ includes(lowerLine, "fatal")
                \/ includes(lowerLine, "error")
        THEN "error"
        ELSE IF \/ includes(lowerLine, "info")
                \/ includes(lowerLine, "debug")
                \/ includes(lowerLine, "success")
        THEN "success"
        ELSE "info"

classify(ln) ==
    LET lowerLine == toLowerCase(ln)
    IN  IF \/ includes(lowerLine, "critical")
           \/ includes(lowerLine, "fatal")
           \/ includes(lowerLine, "error")
        THEN "error"
        ELSE IF \/ includes(lowerLine, "warning")
                \/ includes(lowerLine, "warn")
                \/ includes(lowerLine, "notice")
        THEN "warning"
        ELSE IF \/ includes(lowerLine, "info")
                \/ includes(lowerLine, "debug")
                \/ includes(lowerLine, "success")
        THEN "success"
        ELSE "info"

-----------------------------------------------------------------------------
(* analyzeFileTimestamps, analyzeLogContent *)

\* A plausible slip: the comparison against earliest left out, so that
\* earliest is the first timestamp met along the file.
countTimestamp_FirstSeen(acc, timestamp) ==
    IF timestamp = Null THEN acc
    ELSE [earliest |-> IF acc.earliest = Null THEN timestamp.parsed ELSE acc.earliest,
          latest   |-> IF acc.latest = Null \/ DateLess(acc.latest, timestamp.parsed)
                       THEN timestamp.parsed ELSE acc.latest,
          totalTimestamps |-> acc.totalTimestamps + 1]

\* The body of the forEach of analyzeFileTimestamps for a line whose
\* extraction gave timestamp; acc carries earliest, latest, totalTimestamps.
countTimestamp(acc, timestamp) ==
    IF timestamp = Null THEN acc
    ELSE [earliest |-> IF acc.earliest = Null \/ DateLess(timestamp.parsed, acc.earliest)
                       THEN timestamp.parsed ELSE acc.earliest,
          latest   |-> IF acc.latest = Null \/ DateLess(acc.latest, timestamp.parsed)
                       THEN timestamp.parsed ELSE acc.latest,
          totalTimestamps |-> acc.totalTimestamps + 1]

\* extractTimestampFromLine for a non-blank line, nothing for a blank one.
timestampOfLine(ln) ==
    IF trim(ln) # "" THEN extractTimestampFromLine(ln) ELSE Null

\* The forEach of analyzeFileTimestamps from line index on.
RECURSIVE timestampPass(_, _, _)
timestampPass(lines, index, acc) ==
    IF index > Len(lines) THEN acc
    ELSE timestampPass(lines, index + 1, countTimestamp(acc, timestampOfLine(lines[index])))

\* The returned metadata, acc being the outcome of the forEach.
timestampMetadataOf(fileName, fileId, acc) ==
    [fileId |-> fileId, fileName |-> fileName, earliest |-> acc.earliest,
     latest |-> acc.latest, totalTimestamps |-> acc.totalTimestamps]

analyzeFileTimestamps(content, fileName, fileId) ==
    timestampMetadataOf(fileName, fileId,
        timestampPass(split(content), 1,
                      [earliest |-> Null, latest |-> Null, totalTimestamps |-> 0]))

\* The entry pushed for the line ln at 0-based position index, of category
\* type and with timestampData from the extractor.
entryOf(ln, lineNumber, type, timestampData) ==
    [line       |-> trim(ln),
     lineNumber |-> lineNumber,
     type       |-> type,
     timestamp  |-> IF timestampData = Null THEN Null ELSE timestampData.parsed,
     originalTimestamp |-> IF timestampData = Null THEN Undefined
                           ELSE timestampData.original]

\* A plausible slip: the forEach index used as it is, without the + 1.
makeEntry_ZeroBased(ln, index) ==
    entryOf(ln, index, classify(ln), extractTimestampFromLine(ln))

\* The entry pushed for the non-blank line ln at 0-based position index.
makeEntry(ln, index) ==
    entryOf(ln, index + 1, classify(ln), extractTimestampFromLine(ln))

\* A plausible slip: the three keyword tests not chained by else, so that a
\* line holding words of two groups is counted in both.
pushEntry_Unchained(acc, entry) ==
    [entries  |-> Append(acc.entries, entry),
     errors   |-> acc.errors +
         (IF \E w \in {"critical", "fatal", "error"} : includes(toLowerCase(entry.line), w)
          THEN 1 ELSE 0),
     warnings |-> acc.warnings +
         (IF \E w \in {"warning", "warn", "notice"} : includes(toLowerCase(entry.line), w)
          THEN 1 ELSE 0),
     success  |-> acc.success +
         (IF \E w \in {"info", "debug", "success"} : includes(toLowerCase(entry.line), w)
          THEN 1 ELSE 0)]

\* The accumulators after entry was pushed and its category counted.
pushEntry(acc, entry) ==
    [entries  |-> Append(acc.entries, entry),
     errors   |-> acc.errors + (IF entry.type = "error" THEN 1 ELSE 0),
     warnings |-> acc.warnings + (IF entry.type = "warning" THEN 1 ELSE 0),
     success  |-> acc.success + (IF entry.type = "success" THEN 1 ELSE 0)]

\* The body of the forEach of analyzeLogContent for the line ln at 0-based
\* position index; acc carries entries and the three counters.
visitLine(acc, ln, index) ==
    IF trim(ln) = "" THEN acc ELSE pushEntry(acc, makeEntry(ln, index))

\* The forEach of analyzeLogContent from 0-based position index on.
RECURSIVE linePass(_, _, _)
linePass(lines, index, acc) ==
    IF index >= Len(lines) THEN acc
    ELSE linePass(lines, index + 1, visitLine(acc, lines[index + 1], index))

\* The returned LogFile, acc being the outcome of the forEach.
logFileOf(content, fileName, fileId, acc, timestampMetadata) ==
    [id       |-> fileId,
     name     |-> fileName,
     content  |-> content,
     entries  |-> acc.entries,
     errors   |-> acc.errors,
     warnings |-> acc.warnings,
     success  |-> acc.success,
     timestampMetadata |-> timestampMetadata]

analyzeLogContent(content, fileName, fileId) ==
    logFileOf(content, fileName, fileId,
              linePass(split(content), 0,
                       [entries |-> <<>>, errors |-> 0, warnings |-> 0, success |-> 0]),
              analyzeFileTimestamps(content, fileName, fileId))

-----------------------------------------------------------------------------
(* isTimestampInRange, filteredFiles *)

\* A plausible slip: <= and >= in place of < and >, so that the bounds
\* themselves fall outside the range.
isTimestampInRange_Exclusive(timestamp, startDate, endDate) ==
    IF startDate = Null /\ endDate = Null THEN TRUE
    ELSE IF startDate # Null /\ ~DateLess(startDate, timestamp) THEN FALSE
    ELSE IF endDate # Null /\ ~DateLess(timestamp, endDate) THEN FALSE
    ELSE TRUE

\* A plausible slip: bounds given in the wrong order are taken the other
\* way round.
isTimestampInRange_Swapping(timestamp, startDate, endDate) ==
    IF startDate = Null /\ endDate = Null THEN TRUE
    ELSE IF startDate # Null /\ endDate # Null /\ DateLess(endDate, startDate)
         THEN ~DateLess(timestamp, endDate) /\ ~DateLess(startDate, timestamp)
    ELSE IF startDate # Null /\ DateLess(timestamp, startDate) THEN FALSE
    ELSE IF endDate # Null /\ DateLess(endDate, timestamp) THEN FALSE
    ELSE TRUE

isTimestampInRange(timestamp, startDate, endDate) ==
    IF startDate = Null /\ endDate = Null THEN TRUE
    ELSE IF startDate # Null /\ DateLess(timestamp, startDate) THEN FALSE
    ELSE IF endDate # Null /\ DateLess(endDate, timestamp) THEN FALSE
    ELSE TRUE

\* A plausible slip: the test for a missing timestamp left out, an entry
\* without a timestamp passing as if it were in range.
entryInRange_KeepUnstamped(entry, startDate, endDate) ==
    IF entry.timestamp = Null THEN TRUE
    ELSE isTimestampInRange(entry.timestamp, startDate, endDate)

\* The entry filter of the datetime stage.
entryInRange(entry, startDate, endDate) ==
    IF entry.timestamp = Null THEN FALSE
    ELSE isTimestampInRange(entry.timestamp, startDate, endDate)

\* A plausible slip: the entry filter passes over the first entry that is
\* in range.
datetimeStage_FromSecondEntry(fs, startDate, endDate) ==
    IF startDate = Null /\ endDate = Null THEN fs
    ELSE LET mapped == [i \in 1..Len(fs) |->
                 LET filteredEntries ==
                         SelectSeq(fs[i].entries,
                                   LAMBDA entry : entryInRange(entry, startDate, endDate))
                 IN  IF Len(filteredEntries) <= 1 THEN Null
                     ELSE [fs[i] EXCEPT !.entries = Tail(filteredEntries)]]
         IN  SelectSeq(mapped, LAMBDA file : file # Null)

\* A plausible slip: the test that a bound is set left out, the stage
\* running with no bound.
datetimeStage_AlwaysOn(fs, startDate, endDate) ==
    LET mapped == [i \in 1..Len(fs) |->
            LET filteredEntries ==
                    SelectSeq(fs[i].entries,
                              LAMBDA entry : entryInRange(entry, startDate, endDate))
            IN  IF Len(filteredEntries) = 0 THEN Null
                ELSE [fs[i] EXCEPT !.entries = filteredEntries]]
    IN  SelectSeq(mapped, LAMBDA file : file # Null)

\* A plausible slip: a file left without entries is kept, with an empty list.
datetimeStage_KeepEmpty(fs, startDate, endDate) ==
    IF startDate = Null /\ endDate = Null THEN fs
    ELSE [i \in 1..Len(fs) |->
             [fs[i] EXCEPT !.entries =
                 SelectSeq(fs[i].entries,
                           LAMBDA entry : entryInRange(entry, startDate, endDate))]]

\* Stage 1: map each file to a copy with the entries in range, or to null,
\* then filter(Boolean).
datetimeStage(fs, startDate, endDate) ==
    IF startDate = Null /\ endDate = Null THEN fs
    ELSE LET mapped == [i \in 1..Len(fs) |->
                 LET filteredEntries ==
                         SelectSeq(fs[i].entries,
                                   LAMBDA entry : entryInRange(entry, startDate, endDate))
                 IN  IF Len(filteredEntries) = 0 THEN Null
                     ELSE [fs[i] EXCEPT !.entries = filteredEntries]]
         IN  SelectSeq(mapped, LAMBDA file : file # Null)

\* A plausible slip: the gate counts the entries the file has at this stage.
categoryGate_Recount(file, filter) ==
    filter \in {"error", "warning", "success"} =>
        \E k \in 1..Len(file.entries) : file.entries[k].type = filter

\* Stage 2: the switch on selectedFilter.
categoryGate(file, filter) ==
    CASE filter = "error"   -> file.errors > 0
      [] filter = "warning" -> file.warnings > 0
      [] filter = "success" -> file.success > 0
      [] OTHER              -> TRUE

categoryStage(fs, filter) ==
    IF filter = "all" THEN fs
    ELSE SelectSeq(fs, LAMBDA file : categoryGate(file, filter))

\* A plausible slip: the two toLowerCase calls left out.
searchMatches_CaseSensitive(file, query) ==
    \/ includes(file.name, query)
    \/ \E k \in 1..Len(file.entries) : includes(file.entries[k].line, query)

\* Stage 3: file name or some entry line contains the query.
searchMatches(file, query) ==
    \/ includes(toLowerCase(file.name), toLowerCase(query))
    \/ \E k \in 1..Len(file.entries) :
           includes(toLowerCase(file.entries[k].line), toLowerCase(query))

searchStage(fs, query) ==
    IF query = "" THEN fs
    ELSE SelectSeq(fs, LAMBDA file : searchMatches(file, query))

filteredFiles(fs, filter, query, startDate, endDate) ==
    searchStage(categoryStage(datetimeStage(fs, startDate, endDate), filter), query)

-----------------------------------------------------------------------------
(* dashboardStats *)

\* A plausible slip: >= in place of > in the test of the filter.
filesWith_AtLeastZero(fs, field) ==
    Cardinality({k \in 1..Len(fs) : fs[k][field] >= 0})

\* files.filter(f => f[field] > 0).length
filesWith(fs, field) ==
    Cardinality({k \in 1..Len(fs) : fs[k][field] > 0})

\* files.reduce((sum, f) => sum + f[field], 0), from file k on.
RECURSIVE totalOf(_, _, _, _)
totalOf(fs, field, k, sum) ==
    IF k > Len(fs) THEN sum
    ELSE totalOf(fs, field, k + 1, sum + fs[k][field])

\* The same reduce over timestampMetadata.totalTimestamps.
RECURSIVE totalTimestampsOf(_, _, _)
totalTimestampsOf(fs, k, sum) ==
    IF k > Len(fs) THEN sum
    ELSE totalTimestampsOf(fs, k + 1, sum + fs[k].timestampMetadata.totalTimestamps)

\* A plausible slip: the two tests that the file's value is present left
\* out, so that an absent value (which compares as 0) takes the place of
\* the earliest.
widenRange_Unguarded(dateRange, metadata) ==
    [earliest |-> IF \/ dateRange.earliest = Null
                     \/ metadata.earliest = Null
                     \/ DateLess(metadata.earliest, dateRange.earliest)
                  THEN metadata.earliest ELSE dateRange.earliest,
     latest   |-> IF metadata.latest # Null
                     /\ (dateRange.latest = Null
                         \/ DateLess(dateRange.latest, metadata.latest))
                  THEN metadata.latest ELSE dateRange.latest]

\* The body of the forEach that computes the overall date range, for a file
\* with the given timestampMetadata.
widenRange(dateRange, metadata) ==
    [earliest |-> IF metadata.earliest # Null
                     /\ (dateRange.earliest = Null
                         \/ DateLess(metadata.earliest, dateRange.earliest))
                  THEN metadata.earliest ELSE dateRange.earliest,
     latest   |-> IF metadata.latest # Null
                     /\ (dateRange.latest = Null
                         \/ DateLess(dateRange.latest, metadata.latest))
                  THEN metadata.latest ELSE dateRange.latest]

\* The forEach over the files, from file k on.
RECURSIVE dateRangePass(_, _, _)
dateRangePass(fs, k, dateRange) ==
    IF k > Len(fs) THEN dateRange
    ELSE dateRangePass(fs, k + 1, widenRange(dateRange, fs[k].timestampMetadata))

\* The stats object the useMemo callback returns for the collection fs.
dashboardStatsOf(fs) ==
    [totalFiles        |-> Len(fs),
     filesWithErrors   |-> filesWith(fs, "errors"),
     filesWithWarnings |-> filesWith(fs, "warnings"),
     filesWithSuccess  |-> filesWith(fs, "success"),
     totalErrors       |-> totalOf(fs, "errors", 1, 0),
     totalWarnings     |-> totalOf(fs, "warnings", 1, 0),
     totalSuccess      |-> totalOf(fs, "success", 1, 0),
     totalTimestamps   |-> totalTimestampsOf(fs, 1, 0),
     dateRange         |-> dateRangePass(fs, 1, [earliest |-> Null, latest |-> Null])]

-----------------------------------------------------------------------------
(* Inputs *)

\* The clock and the zone of the machine the session runs on.
Environments ==
    { [now |-> [day |-> DaysFromCivil(2024, 6, 15), ms |-> 36000500], tz |-> 0],
      [now |-> [day |-> DaysFromCivil(2026, 11, 3), ms |-> 0], tz |-> 120] }

LeadStamps ==
    { "", "2024-06-15T09:34:10.123Z", "2024-06-15 09:34:10",
      "2024-06-15 09:34:10.123", "2024-06-15T09:34:10+02:00",
      "06/15/2024 09:34:10", "Jun 15 09:34:10", "Jun 5 09:34:10", "Feb 29 10:00:00",
      "[15/Jun/2024:09:34:10 +0000]", "2024-13-45T99:99:99",
      "13/45/2024 09:34:10" }

TailStamps ==
    { "", " 2023-01-02 03:04:05", " 2023-01-02T03:04:05.678",
      " 01/02/2023 03:04:05", " Feb 3 04:05:06",
      " [02/Jan/2023:03:04:05 -0500]" }

LineWords ==
    { "", " CRITICAL disk failure", " Fatal", " error info", " INFO then ERROR",
      " WARN: fatal", " WARNING", " warn", " notice: restart",
      " informational warning", " INFO ok", " debug", " Success",
      " plain text" }

Lines == { a \o b \o c : a \in LeadStamps, b \in TailStamps, c \in LineWords }

SessionIdle ==
    /\ files = <<>>
    /\ reading = <<>>
    /\ searchQuery = ""
    /\ selectedFilter = "all"
    /\ startDateTime = Null
    /\ endDateTime = Null
    /\ expandedFiles = {}
    /\ fileList = <<>>

-----------------------------------------------------------------------------
(* Single-line specification: the extractor and the classifier applied to   *)
(* one line, as in the body of the forEach of analyzeLogContent.            *)

InitLine ==
    /\ SessionIdle
    /\ \E env \in Environments : now = env.now /\ tz = env.tz
    /\ line \in Lines
    /\ lineOut = Null
    /\ lineType = "info"
    /\ pc = "line"

ExtractLine ==
    /\ pc = "line"
    /\ lineOut' = extractTimestampFromLine(line)
    /\ pc' = "extracted"
    /\ UNCHANGED <<files, reading, searchQuery, selectedFilter, startDateTime,
                   endDateTime, now, tz, line, lineType,
                   expandedFiles, fileList>>

ClassifyLine ==
    /\ pc = "extracted"
    /\ lineType' = classify(line)
    /\ pc' = "classified"
    /\ UNCHANGED <<files, reading, searchQuery, selectedFilter, startDateTime,
                   endDateTime, now, tz, line, lineOut,
                   expandedFiles, fileList>>

NextLine == ExtractLine \/ ClassifyLine

SpecLine == InitLine /\ [][NextLine]_vars

-----------------------------------------------------------------------------
(* handleFileUpload and the onload callback of its FileReaders *)

endsWith(s, suffix) ==
    Len(s) >= Len(suffix) /\ SubSeq(s, Len(s) - Len(suffix) + 1, Len(s)) = suffix

\* The test that lets a selected file be read.
isAccepted(file) ==
    file.type = "text/plain" \/ endsWith(file.name, ".log") \/ endsWith(file.name, ".txt")

\* A plausible slip: the walk over the selection ends at the first file that
\* is not accepted.
handleFileUpload_StopsAtUnsupported(uploadedFiles) ==
    LET stop == IF \A k \in 1..Len(uploadedFiles) : isAccepted(uploadedFiles[k])
                THEN Len(uploadedFiles) + 1
                ELSE CHOOSE k \in 1..Len(uploadedFiles) :
                         /\ ~isAccepted(uploadedFiles[k])
                         /\ \A j \in 1..(k - 1) : isAccepted(uploadedFiles[j])
    IN  /\ reading' = reading \o SubSeq(uploadedFiles, 1, stop - 1)
        /\ UNCHANGED <<files, searchQuery, selectedFilter, startDateTime,
                       endDateTime, now, tz, line, lineOut, lineType,
                       expandedFiles, fileList>>

\* handleFileUpload: a reader is started for every accepted file of the
\* selection, in the order of the selection.
handleFileUpload(uploadedFiles) ==
    /\ reading' = reading \o SelectSeq(uploadedFiles, isAccepted)
    /\ UNCHANGED <<files, searchQuery, selectedFilter, startDateTime,
                   endDateTime, now, tz, line, lineOut, lineType,
                   expandedFiles, fileList>>

MaxRandom == 2

\* The values Math.random() may give.
RandomDraws == 1..MaxRandom

\* Date.now().toString() + Math.random().toString(36)
makeFileId(random) == [time |-> now, random |-> random]

\* A plausible slip: setFiles([...files, analyzedFile]) with the files of the
\* render that created the callback, the empty collection.
onload_StaleClosure(i) ==
    /\ i \in 1..Len(reading)
    /\ \E random \in RandomDraws :
           LET analyzedFile == analyzeLogContent(reading[i].content, reading[i].name,
                                                 makeFileId(random))
           IN  files' = <<analyzedFile>>
    /\ reading' = SubSeq(reading, 1, i - 1) \o SubSeq(reading, i + 1, Len(reading))
    /\ UNCHANGED <<searchQuery, selectedFilter, startDateTime, endDateTime,
                   now, tz, line, lineOut, lineType, pc,
                   expandedFiles, fileList>>

\* A plausible slip: the new record takes the place of the records of the
\* same name.
onload_ReplacesSameName(i) ==
    /\ i \in 1..Len(reading)
    /\ \E random \in RandomDraws :
           LET analyzedFile == analyzeLogContent(reading[i].content, reading[i].name,
                                                 makeFileId(random))
           IN  files' = Append(SelectSeq(files, LAMBDA f : f.name # reading[i].name),
                               analyzedFile)
    /\ reading' = SubSeq(reading, 1, i - 1) \o SubSeq(reading, i + 1, Len(reading))
    /\ UNCHANGED <<searchQuery, selectedFilter, startDateTime, endDateTime,
                   now, tz, line, lineOut, lineType, pc,
                   expandedFiles, fileList>>

\* reader.onload of the i-th pending reader: the content is analyzed and
\* the record is appended to the collection.
onload(i) ==
    /\ i \in 1..Len(reading)
    /\ \E random \in RandomDraws :
           LET analyzedFile == analyzeLogContent(reading[i].content, reading[i].name,
                                                 makeFileId(random))
           IN  files' = Append(files, analyzedFile)
    /\ reading' = SubSeq(reading, 1, i - 1) \o SubSeq(reading, i + 1, Len(reading))
    /\ UNCHANGED <<searchQuery, selectedFilter, startDateTime, endDateTime,
                   now, tz, line, lineOut, lineType, pc,
                   expandedFiles, fileList>>

-----------------------------------------------------------------------------
(* Single-file specification: one selected file is read and analyzed. *)

MaxLines == 3

AnalyzeLineVocabulary ==
    { "", "  ", "2024-06-15 09:00:00 ERROR disk", "  2024-06-16T10:00:00 info ok  ",
      "WARN: fatal, no stamp\r", "plain" }

RECURSIVE ContentsOfLength(_)
ContentsOfLength(n) ==
    IF n = 1 THEN AnalyzeLineVocabulary
    ELSE { c \o "\n" \o l : c \in ContentsOfLength(n - 1), l \in AnalyzeLineVocabulary }

AnalyzeContents == UNION { ContentsOfLength(n) : n \in 1..MaxLines }

AnalyzeUploads ==
    { [name |-> "app.log", type |-> "", content |-> c] : c \in AnalyzeContents }
    \cup { [name |-> "notes", type |-> "text/plain", content |-> "INFO ok\n\nerror"],
           [name |-> "photo.png", type |-> "image/png", content |-> "error" ] }

InitAnalyze ==
    /\ SessionIdle
    /\ \E env \in Environments : now = env.now /\ tz = env.tz
    /\ line = ""
    /\ lineOut = Null
    /\ lineType = "info"
    /\ pc = "session"

UploadOne ==
    /\ files = <<>>
    /\ reading = <<>>
    /\ \E file \in AnalyzeUploads : handleFileUpload(<<file>>)
    /\ UNCHANGED pc

ReadCompletes == \E i \in 1..Len(reading) : onload(i)

NextAnalyze == UploadOne \/ ReadCompletes

SpecAnalyze == InitAnalyze /\ [][NextAnalyze]_vars

-----------------------------------------------------------------------------
(* The filter state: category buttons, search box, DateTimeRangePicker *)

\* The controls below are rendered only while the collection is not empty.
controlsShown == Len(files) > 0

\* The useMemo value filteredFiles of the current state.
filteredView ==
    filteredFiles(files, selectedFilter, searchQuery, startDateTime, endDateTime)

\* A plausible slip: the stats taken over the filtered view.
dashboardStats_OfFilteredView == dashboardStatsOf(filteredView)

\* The useMemo value dashboardStats of the current state (dependency: files).
dashboardStats == dashboardStatsOf(files)

setSelectedFilter(filter) ==
    /\ controlsShown
    /\ selectedFilter' = filter
    /\ UNCHANGED <<files, reading, searchQuery, startDateTime, endDateTime,
                   now, tz, line, lineOut, lineType, pc,
                   expandedFiles, fileList>>

setSearchQuery(query) ==
    /\ controlsShown
    /\ searchQuery' = query
    /\ UNCHANGED <<files, reading, selectedFilter, startDateTime, endDateTime,
                   now, tz, line, lineOut, lineType, pc,
                   expandedFiles, fileList>>

\* The body shared by handleStartDateChange and handleEndDateChange: the
\* previous bound (or the current time) with the picked day's year, month
\* and day set one after the other.
withPickedDate(previous, date) ==
    LET newDateTime == IF previous # Null THEN previous ELSE now
    IN  setDate(setMonth(setFullYear(newDateTime, getFullYear(date)),
                         getMonth(date)),
                getDate(date))

\* A plausible slip: taking the day off the calendar clears the bound.
handleStartDateChange_ClearsOnDeselect(date) ==
    /\ controlsShown
    /\ startDateTime' = IF date # Null THEN withPickedDate(startDateTime, date)
                        ELSE Null
    /\ UNCHANGED <<files, reading, searchQuery, selectedFilter, endDateTime,
                   now, tz, line, lineOut, lineType, pc,
                   expandedFiles, fileList>>

\* onSelect of the start calendar: a picked day, or nothing (Null) when the
\* selected day is clicked again; the handler acts only on a day.
handleStartDateChange(date) ==
    /\ controlsShown
    /\ startDateTime' = IF date # Null THEN withPickedDate(startDateTime, date)
                        ELSE startDateTime
    /\ UNCHANGED <<files, reading, searchQuery, selectedFilter, endDateTime,
                   now, tz, line, lineOut, lineType, pc,
                   expandedFiles, fileList>>

\* A plausible slip: the recomputation of the view that follows the change
\* assigns the entries in range to the stored file instead of to a copy.
handleEndDateChange_FilterInPlace(date) ==
    /\ controlsShown
    /\ endDateTime' = IF date # Null THEN withPickedDate(endDateTime, date)
                      ELSE endDateTime
    /\ files' = [k \in 1..Len(files) |->
                     [files[k] EXCEPT !.entries =
                         SelectSeq(@, LAMBDA entry :
                             entryInRange(entry, startDateTime, endDateTime'))]]
    /\ UNCHANGED <<reading, searchQuery, selectedFilter, startDateTime,
                   now, tz, line, lineOut, lineType, pc,
                   expandedFiles, fileList>>

handleEndDateChange(date) ==
    /\ controlsShown
    /\ endDateTime' = IF date # Null THEN withPickedDate(endDateTime, date)
                      ELSE endDateTime
    /\ UNCHANGED <<files, reading, searchQuery, selectedFilter, startDateTime,
                   now, tz, line, lineOut, lineType, pc,
                   expandedFiles, fileList>>

\* minute.toString().padStart(2, '0')
padStart2(n) == IF n < 10 THEN "0" \o ToString(n) ELSE ToString(n)

getTimeParts(date) ==
    [hour   |-> ToString(IF getHours(date) % 12 = 0 THEN 12 ELSE getHours(date) % 12),
     minute |-> padStart2(getMinutes(date)),
     ampm   |-> IF getHours(date) >= 12 THEN "PM" ELSE "AM"]

setTime(date, hour, minute, ampmVal) ==
    LET parsed == parseInt(hour)
        h == IF ampmVal = "PM" /\ parsed < 12 THEN parsed + 12
             ELSE IF ampmVal = "AM" /\ parsed = 12 THEN 0
             ELSE parsed
    IN  setHours(date, h, parseInt(minute))

\* onChange of the hour select of the start bound (shown only when the
\* bound is set).
startHourChange(value) ==
    /\ controlsShown
    /\ startDateTime # Null
    /\ startDateTime' = setTime(startDateTime, value,
                                getTimeParts(startDateTime).minute,
                                getTimeParts(startDateTime).ampm)
    /\ UNCHANGED <<files, reading, searchQuery, selectedFilter, endDateTime,
                   now, tz, line, lineOut, lineType, pc,
                   expandedFiles, fileList>>

\* onChange of the hour select of the end bound.
endHourChange(value) ==
    /\ controlsShown
    /\ endDateTime # Null
    /\ endDateTime' = setTime(endDateTime, value,
                              getTimeParts(endDateTime).minute,
                              getTimeParts(endDateTime).ampm)
    /\ UNCHANGED <<files, reading, searchQuery, selectedFilter, startDateTime,
                   now, tz, line, lineOut, lineType, pc,
                   expandedFiles, fileList>>

\* The Clear button of the picker is rendered while a bound is set.
hasActiveFilter == startDateTime # Null \/ endDateTime # Null

clearDateTimeFilter ==
    /\ controlsShown
    /\ hasActiveFilter
    /\ startDateTime' = Null
    /\ endDateTime' = Null
    /\ UNCHANGED <<files, reading, searchQuery, selectedFilter,
                   now, tz, line, lineOut, lineType, pc,
                   expandedFiles, fileList>>

-----------------------------------------------------------------------------
(* Filter specification: one selection is uploaded and read, and the        *)
(* controls drive the filter state.                                          *)

MaxFiles == 2

FilterUploads ==
    { [name |-> "app.log", type |-> "",
       content |-> "2024-06-15 09:00:00 boot\n2024-06-16 10:00:00 ERROR disk"],
      [name |-> "error.txt", type |-> "text/plain",
       content |-> "2024-06-15T10:00:00 INFO ok\nwarn: no stamp"],
      [name |-> "sys.log", type |-> "",
       content |-> "\nJun 16 10:00:00 notice disk"] }

\* The selections of at most MaxFiles files.
FilterSelections ==
    UNION { [1..n -> FilterUploads] : n \in 0..MaxFiles }

\* The collection after the reads of a selection completed in order, the
\* i-th record taking the i-th random draw.
loadedCollection(selection) ==
    [i \in 1..Len(selection) |->
        analyzeLogContent(selection[i].content, selection[i].name, makeFileId(i))]

\* The selection is uploaded to the empty session and its readers complete
\* in the order of the selection: handleFileUpload, then onload for each.
LoadSelection ==
    /\ pc = "load"
    /\ \E selection \in FilterSelections : files' = loadedCollection(selection)
    /\ pc' = "session"
    /\ UNCHANGED <<reading, searchQuery, selectedFilter, startDateTime,
                   endDateTime, now, tz, line, lineOut, lineType,
                   expandedFiles, fileList>>

FilterChoices == {"all", "error", "warning", "success"}

Queries == {"", "ERR", "disk"}

CalendarDays ==
    { [day |-> DaysFromCivil(2024, 6, 15), ms |-> 0],
      [day |-> DaysFromCivil(2024, 6, 16), ms |-> 0] }

HourOptions == {"9"}

InitFilter ==
    /\ SessionIdle
    /\ \E env \in Environments : env.tz = 0 /\ now = env.now /\ tz = env.tz
    /\ line = ""
    /\ lineOut = Null
    /\ lineType = "info"
    /\ pc = "load"

NextFilter ==
    \/ LoadSelection
    \/ \E filter \in FilterChoices : setSelectedFilter(filter)
    \/ \E query \in Queries : setSearchQuery(query)
    \/ \E date \in CalendarDays \cup {Null} : handleStartDateChange(date)
    \/ \E date \in CalendarDays \cup {Null} : handleEndDateChange(date)
    \/ \E value \in HourOptions : startHourChange(value)
    \/ \E value \in HourOptions : endHourChange(value)
    \/ clearDateTimeFilter

SpecFilter == InitFilter /\ [][NextFilter]_vars

-----------------------------------------------------------------------------
(* Picker specification: a selection is loaded and the calendars, the hour  *)
(* selects and the Clear button of the DateTimeRangePicker set the bounds.  *)

\* The clock readings of the picker's sessions, the last day of a month at
\* 23:00 among them.
PickerClocks ==
    {env.now : env \in Environments}
    \cup { [day |-> DaysFromCivil(2024, 1, 31), ms |-> 82800000] }

\* The days picked on the calendars.
PickerDays ==
    { [day |-> DaysFromCivil(2024, 5, 31), ms |-> 0],
      [day |-> DaysFromCivil(2024, 6, 15), ms |-> 0],
      [day |-> DaysFromCivil(2025, 2, 10), ms |-> 0] }

InitPicker ==
    /\ SessionIdle
    /\ now \in PickerClocks
    /\ tz = 0
    /\ line = ""
    /\ lineOut = Null
    /\ lineType = "info"
    /\ pc = "load"

NextPicker ==
    \/ LoadSelection
    \/ \E date \in PickerDays \cup {Null} : handleStartDateChange(date)
    \/ \E date \in PickerDays \cup {Null} : handleEndDateChange(date)
    \/ \E value \in HourOptions : startHourChange(value)
    \/ \E value \in HourOptions : endHourChange(value)
    \/ clearDateTimeFilter

SpecPicker == InitPicker /\ [][NextPicker]_vars

-----------------------------------------------------------------------------
(* Deleting files, and the session specification: selections are uploaded  *)
(* and read in any order, files are deleted from their cards (the cards of  *)
(* the filtered view), the collection is cleared and the controls drive the *)
(* filter state.                                                            *)

\* A plausible slip: Clear All also drops the reads in flight.
clearAllFiles_AbortsReads ==
    /\ Len(files) > 0
    /\ files' = <<>>
    /\ reading' = <<>>
    /\ UNCHANGED <<searchQuery, selectedFilter, startDateTime,
                   endDateTime, now, tz, line, lineOut, lineType, pc,
                   expandedFiles, fileList>>

\* The Clear All button, rendered while the collection is not empty.
clearAllFiles ==
    /\ Len(files) > 0
    /\ files' = <<>>
    /\ UNCHANGED <<reading, searchQuery, selectedFilter, startDateTime,
                   endDateTime, now, tz, line, lineOut, lineType, pc,
                   expandedFiles, fileList>>

\* deleteFile(fileId): every file of that id leaves the collection.
deleteFile(fileId) ==
    /\ files' = SelectSeq(files, LAMBDA f : f.id # fileId)
    /\ expandedFiles' = expandedFiles \ {fileId}
    /\ UNCHANGED <<reading, searchQuery, selectedFilter, startDateTime,
                   endDateTime, now, tz, line, lineOut, lineType, pc,
                   fileList>>

\* toggleFileExpansion(fileId): the id leaves the set when it is in it and
\* joins it otherwise.
toggleFileExpansion(fileId) ==
    /\ expandedFiles' = IF fileId \in expandedFiles
                        THEN expandedFiles \ {fileId}
                        ELSE expandedFiles \cup {fileId}
    /\ UNCHANGED <<files, reading, searchQuery, selectedFilter, startDateTime,
                   endDateTime, now, tz, line, lineOut, lineType, pc,
                   fileList>>

\* The reading of the clock during the session: the events of the session
\* follow one another within one millisecond, the case in which the time
\* part of the ids does not tell two files apart.
SessionStart == (CHOOSE env \in Environments : env.tz = 0).now

SessionUploads ==
    { [name |-> "app.log", type |-> "",
       content |-> "2024-06-16 10:00:00 ERROR disk\n2024-06-15 09:00:00 fatal\ncritical"],
      [name |-> "notes.txt", type |-> "text/plain",
       content |-> "INFO ok\nwarn: no stamp"],
      [name |-> "sys.log", type |-> "",
       content |-> "2024-06-14T08:00:00 notice disk"] }

\* The selections of one or two files (the same file twice among them).
SessionSelections == UNION { [1..n -> SessionUploads] : n \in 1..2 }

\* A selection is dropped or picked; the session holds at most MaxFiles
\* files, read or being read.
UploadSelection ==
    \E uploadedFiles \in SessionSelections :
        /\ Len(files) + Len(reading) + Len(uploadedFiles) <= MaxFiles
        /\ handleFileUpload(uploadedFiles)
        /\ UNCHANGED pc

InitSession ==
    /\ SessionIdle
    /\ now = SessionStart
    /\ tz = 0
    /\ line = ""
    /\ lineOut = Null
    /\ lineType = "info"
    /\ pc = "session"

NextSession ==
    \/ UploadSelection
    \/ ReadCompletes
    \/ \E file \in {filteredView[k] : k \in 1..Len(filteredView)} : deleteFile(file.id)
    \/ clearAllFiles
    \/ \E filter \in {"all", "error"} : setSelectedFilter(filter)
    \/ \E query \in {"", "disk"} : setSearchQuery(query)
    \/ handleStartDateChange([day |-> DaysFromCivil(2024, 6, 15), ms |-> 0])
    \/ clearDateTimeFilter

SpecSession == InitSession /\ [][NextSession]_vars

-----------------------------------------------------------------------------
(* Card specification: selections are uploaded and read in any order, the   *)
(* cards of the filtered view are expanded, collapsed and deleted, the      *)
(* collection is cleared and the category filter changes.                   *)

\* The files that have a card on the screen.
cards == {filteredView[k] : k \in 1..Len(filteredView)}

NextCards ==
    \/ UploadSelection
    \/ ReadCompletes
    \/ \E file \in cards : toggleFileExpansion(file.id)
    \/ \E file \in cards : deleteFile(file.id)
    \/ clearAllFiles
    \/ \E filter \in {"all", "error"} : setSelectedFilter(filter)

SpecCards == InitSession /\ [][NextCards]_vars

\* The pending read of the file u fires its onload and leaves the pending
\* reads (onload is the only handler that takes a reader off them).
onloadFires(u) ==
    \E i \in 1..Len(reading) :
        /\ reading[i] = u
        /\ reading' = SubSeq(reading, 1, i - 1) \o SubSeq(reading, i + 1, Len(reading))

\* Uploads, read completions, deletions from the cards, Clear All and the
\* category filter.
NextReads ==
    \/ UploadSelection
    \/ ReadCompletes
    \/ \E file \in cards : deleteFile(file.id)
    \/ clearAllFiles
    \/ \E filter \in {"all", "error"} : setSelectedFilter(filter)

\* The FileReader's guarantee: a read that was started fires its onload; no
\* handler of the session holds it back or cancels it.
SpecReadsFair ==
    /\ InitSession
    /\ [][NextReads]_vars
    /\ \A u \in SessionUploads : WF_reading(onloadFires(u))

-----------------------------------------------------------------------------
(* Upload specification: one FileList, accepted and unsupported files mixed, *)
(* is handed to handleFileUpload on the empty session and its readers        *)
(* complete in any order.                                                    *)

UnsupportedUploads ==
    { [name |-> "photo.png", type |-> "image/png", content |-> "ERROR in pixels"],
      [name |-> "app.log.gz", type |-> "", content |-> "fatal"] }

\* The files a FileList is made of: the session's uploads, a plain-text
\* file without extension and the unsupported ones.
UploadVocabulary ==
    SessionUploads
    \cup { [name |-> "README", type |-> "text/plain", content |-> "success"] }
    \cup UnsupportedUploads

\* The FileLists of one to MaxFiles files.
FileLists == UNION { [1..n -> UploadVocabulary] : n \in 1..MaxFiles }

InitUpload ==
    /\ files = <<>>
    /\ reading = <<>>
    /\ searchQuery = ""
    /\ selectedFilter = "all"
    /\ startDateTime = Null
    /\ endDateTime = Null
    /\ expandedFiles = {}
    /\ fileList \in FileLists
    /\ now = SessionStart
    /\ tz = 0
    /\ line = ""
    /\ lineOut = Null
    /\ lineType = "info"
    /\ pc = "drop"

\* The FileList is dropped on the empty session.
DropFileList ==
    /\ pc = "drop"
    /\ handleFileUpload(fileList)
    /\ pc' = "session"

NextUpload == DropFileList \/ ReadCompletes

SpecUpload == InitUpload /\ [][NextUpload]_vars

-----------------------------------------------------------------------------
(* Properties of the single-line specification *)

ErrorWords == {"critical", "fatal", "error"}

WarningWords == {"warning", "warn", "notice"}

SuccessWords == {"info", "debug", "success"}

\* Some word of the set occurs in the (lower-cased) text.
ContainsAny(lowered, words) == \E w \in words : includes(lowered, w)

\* C1: the category of a line is decided by keyword containment, ignoring
\* case, in strict precedence error > warning > success > info; a line
\* holding both "error" and "info" is an error line.
C1_ClassifyPrecedence ==
    pc = "classified" =>
        LET lowered == toLowerCase(line)
        IN  /\ lineType = (IF ContainsAny(lowered, ErrorWords) THEN "error"
                           ELSE IF ContainsAny(lowered, WarningWords) THEN "warning"
                           ELSE IF ContainsAny(lowered, SuccessWords) THEN "success"
                           ELSE "info")
            /\ (includes(lowered, "error") /\ includes(lowered, "info")
                   => lineType = "error")

\* An error line that holds "info" too and spells ERROR in capitals.
C1_Witness ==
    /\ pc = "classified"
    /\ includes(line, "ERROR")
    /\ includes(line, "INFO")
    /\ lineType = "error"

\* The six shapes in the priority order the extractor is to follow.
ShapePriority == <<"iso", "standard", "millis", "us", "syslog", "apache">>

\* Position of the leftmost match of the k-th shape in text, 0 when none.
ShapePos(k, text) ==
    IF \A i \in 1..Len(text) : ShapeMatchLen(ShapePriority[k], text, i) = 0 THEN 0
    ELSE CHOOSE i \in 1..Len(text) :
             /\ ShapeMatchLen(ShapePriority[k], text, i) > 0
             /\ \A j \in 1..(i - 1) : ShapeMatchLen(ShapePriority[k], text, j) = 0

\* Text of the leftmost match of the k-th shape ("" when none).
ShapeText(k, text) ==
    IF ShapePos(k, text) = 0 THEN ""
    ELSE SubSeq(text, ShapePos(k, text),
                ShapePos(k, text) + ShapeMatchLen(ShapePriority[k], text, ShapePos(k, text)) - 1)

\* The leftmost match of the k-th shape exists and parses to a valid instant.
ShapeParses(k, text) ==
    ShapePos(k, text) > 0 /\ IsValidDate(NewDate(dateText(ShapeText(k, text))))

ParsingShapes(text) == {k \in 1..Len(ShapePriority) : ShapeParses(k, text)}

LeastOf(S) == CHOOSE k \in S : \A j \in S : k <= j

\* C2: the extractor returns the leftmost match of the highest-priority
\* shape whose match parses, wherever the matches of the other shapes lie,
\* and nothing when no shape's match parses.
C2_ShapePriorityWins ==
    pc = "extracted" =>
        LET parsing == ParsingShapes(line)
        IN  IF parsing = {} THEN lineOut = Null
            ELSE LET text == ShapeText(LeastOf(parsing), line)
                 IN  /\ lineOut # Null
                     /\ lineOut.original = text
                     /\ lineOut.parsed = NewDate(dateText(text))

\* A lower-priority shape parses and lies further left than the result.
C2_Witness ==
    /\ pc = "extracted"
    /\ lineOut # Null
    /\ LET parsing == ParsingShapes(line)
           best    == LeastOf(parsing)
       IN  \E k \in parsing :
               /\ k > best
               /\ ShapePos(k, line) < ShapePos(best, line)
               /\ lineOut.original = ShapeText(best, line)
               /\ lineOut.original # ShapeText(k, line)

\* Some match of the k-th shape that lies after its leftmost match parses
\* to a valid instant.
LaterMatchParses(k, text) ==
    \E i \in 1..Len(text) :
        /\ ShapePos(k, text) > 0
        /\ i >= ShapePos(k, text)
                  + ShapeMatchLen(ShapePriority[k], text, ShapePos(k, text))
        /\ ShapeMatchLen(ShapePriority[k], text, i) > 0
        /\ IsValidDate(NewDate(dateText(
               SubSeq(text, i, i + ShapeMatchLen(ShapePriority[k], text, i) - 1))))

\* C12: a leftmost match that does not parse is dropped and the next shape
\* has its turn; the later matches of the same shape are never tried.  The
\* result is absent exactly when no shape's leftmost match parses (no shape
\* matching at all included), whatever the later matches are; a result is
\* the leftmost match of a shape, every shape before it having no match or
\* a leftmost match that does not parse.
C12_FailedMatchMovesOn ==
    pc = "extracted" =>
        LET shapes == 1..Len(ShapePriority)
        IN  /\ (lineOut = Null) = (\A k \in shapes : ~ShapeParses(k, line))
            /\ lineOut # Null =>
                   \E k \in shapes :
                       /\ lineOut.original = ShapeText(k, line)
                       /\ IsValidDate(lineOut.parsed)
                       /\ \A j \in 1..(k - 1) : ~ShapeParses(j, line)

\* The leftmost ISO-shaped text does not parse, a later one would, no other
\* shape matches, and the result is absent.
C12_Witness ==
    /\ pc = "extracted"
    /\ lineOut = Null
    /\ ShapePos(1, line) > 0
    /\ ~ShapeParses(1, line)
    /\ LaterMatchParses(1, line)

\* The leftmost match of a shape does not parse and a later shape gives
\* the result.
C12_WitnessNextShape ==
    /\ pc = "extracted"
    /\ lineOut # Null
    /\ \E k \in 1..Len(ShapePriority) :
           /\ ShapePos(k, line) > 0
           /\ ~ShapeParses(k, line)
           /\ \E j \in (k + 1)..Len(ShapePriority) : lineOut.original = ShapeText(j, line)

\* The leftmost match of the Apache shape is the one handed to date
\* parsing: the line has one and no shape before it gave a result.
ApacheMatchParsed(text) ==
    /\ ShapePos(6, text) > 0
    /\ \A k \in 1..5 : ~ShapeParses(k, text)

\* C13: for a match of the Apache shape the text handed to date parsing
\* holds neither the opening "[" nor the closing "]" of the match.
C13_ApacheBracketsStripped ==
    pc = "extracted" /\ ApacheMatchParsed(line) =>
        /\ ~includes(dateText(ShapeText(6, line)), "[")
        /\ ~includes(dateText(ShapeText(6, line)), "]")

\* The leftmost match of the syslog shape is the one handed to date
\* parsing: the line has one and no shape before it gave a result.
SyslogMatchParsed(text) ==
    /\ ShapePos(5, text) > 0
    /\ \A k \in 1..4 : ~ShapeParses(k, text)

\* The fields written in a text of the shape "Mon D HH:MM:SS".
SyslogFields(text) ==
    LET n == Len(text)
    IN  [month  |-> MonthNumber(SubSeq(text, 1, 3)),
         day    |-> parseInt(SubSeq(text, 5, n - 9)),
         hour   |-> parseInt(SubSeq(text, n - 7, n - 6)),
         minute |-> parseInt(SubSeq(text, n - 4, n - 3)),
         second |-> parseInt(SubSeq(text, n - 1, n))]

\* The result is the syslog text itself, without a year, and its instant
\* has the current year and the month, day and time of day of the text.
SyslogResultInCurrentYear(text) ==
    LET fields == SyslogFields(text)
    IN  /\ lineOut # Null
        /\ lineOut.original = text
        /\ Len(lineOut.original) <= 15
        /\ getFullYear(lineOut.parsed) = getFullYear(now)
        /\ getMonth(lineOut.parsed) + 1 = fields.month
        /\ getDate(lineOut.parsed) = fields.day
        /\ lineOut.parsed.ms
             = ((fields.hour * 60 + fields.minute) * 60 + fields.second) * 1000

\* The day of the text exists in its month of the current year.
SyslogDayExists(text) ==
    SyslogFields(text).day <= DaysInMonth(getFullYear(now), SyslogFields(text).month)

-----------------------------------------------------------------------------
(* Properties of the single-file specification *)

EntriesFollowLines(file) ==
    LET lines    == split(file.content)
        nonBlank == {k \in 1..Len(lines) : trim(lines[k]) # ""}
        entries  == file.entries
    IN  /\ Len(entries) = Cardinality(nonBlank)
        /\ {entries[j].lineNumber : j \in 1..Len(entries)} = nonBlank
        /\ \A j \in 1..Len(entries) :
               entries[j].line = trim(lines[entries[j].lineNumber])
        /\ \A j \in 1..(Len(entries) - 1) :
               entries[j].lineNumber < entries[j + 1].lineNumber

\* C9: an analyzed file has one entry per non-blank line and none for a
\* blank line; lineNumber is the 1-based position of the line in the raw
\* split (blank lines counted), strictly increasing along the entries, and
\* the entry's line is the trimmed text of that line.
C9_EntriesKeepRawLineNumbers ==
    \A f \in 1..Len(files) : EntriesFollowLines(files[f])

\* A blank line precedes an entry, whose text was trimmed.
C9_Witness ==
    \E f \in 1..Len(files) : \E j \in 1..Len(files[f].entries) :
        /\ files[f].entries[j].lineNumber > j
        /\ files[f].entries[j].line # split(files[f].content)[files[f].entries[j].lineNumber]

CountOfType(file, type) ==
    Cardinality({j \in 1..Len(file.entries) : file.entries[j].type = type})

\* C10: the three counters of an analyzed file are the numbers of its
\* entries of category error, warning and success; every entry has one of
\* the four categories, so the info entries number
\* entries.length - (errors + warnings + success), which is never negative.
C10_CountsMatchEntries ==
    \A f \in 1..Len(files) :
        LET file == files[f]
        IN  /\ file.errors = CountOfType(file, "error")
            /\ file.warnings = CountOfType(file, "warning")
            /\ file.success = CountOfType(file, "success")
            /\ \A j \in 1..Len(file.entries) : file.entries[j].type \in Categories
            /\ Len(file.entries) - (file.errors + file.warnings + file.success) >= 0
            /\ CountOfType(file, "info")
                 = Len(file.entries) - (file.errors + file.warnings + file.success)

\* A file with an error line that also holds a warning word, and an info line.
C10_Witness ==
    \E f \in 1..Len(files) :
        /\ files[f].errors > 0
        /\ files[f].warnings = 0
        /\ CountOfType(files[f], "info") > 0
        /\ \E j \in 1..Len(files[f].entries) :
               /\ files[f].entries[j].type = "error"
               /\ includes(toLowerCase(files[f].entries[j].line), "warn")

\* a is the instant b or a later one.
AtOrAfter(a, b) == a.day > b.day \/ (a.day = b.day /\ a.ms >= b.ms)

\* The timestamps of the entries of a file.
EntryTimestamps(file) ==
    {file.entries[j].timestamp : j \in {k \in 1..Len(file.entries) :
                                            file.entries[k].timestamp # Null}}

\* t is a least (greatest) instant of the non-empty set S.
IsMinimumOf(t, S) == t \in S /\ \A u \in S : AtOrAfter(u, t)

IsMaximumOf(t, S) == t \in S /\ \A u \in S : AtOrAfter(t, u)

-----------------------------------------------------------------------------
(* Properties of the session specification *)

\* The sum of field over the files of the collection at the positions S.
RECURSIVE SumAt(_, _, _)
SumAt(fs, field, S) ==
    IF S = {} THEN 0
    ELSE LET k == CHOOSE j \in S : TRUE
         IN  fs[k][field] + SumAt(fs, field, S \ {k})

\* The number of files of the collection whose field is positive.
PositiveAt(fs, field) == Cardinality({k \in 1..Len(fs) : fs[k][field] > 0})

\* C15: the dashboard's totals are the sums of the files' counts, its
\* filesWith numbers are the numbers of files whose count is positive, and
\* totalFiles is the number of files.
C15_DashboardTotals ==
    /\ dashboardStats.totalFiles = Len(files)
    /\ dashboardStats.totalErrors = SumAt(files, "errors", 1..Len(files))
    /\ dashboardStats.totalWarnings = SumAt(files, "warnings", 1..Len(files))
    /\ dashboardStats.totalSuccess = SumAt(files, "success", 1..Len(files))
    /\ dashboardStats.filesWithErrors = PositiveAt(files, "errors")
    /\ dashboardStats.filesWithWarnings = PositiveAt(files, "warnings")
    /\ dashboardStats.filesWithSuccess = PositiveAt(files, "success")

\* One file with 3 errors and one with none: filesWithErrors is 1 and
\* totalErrors is 3.
C15_Witness ==
    /\ Len(files) = 2
    /\ \E j \in 1..2 : \E k \in 1..2 : files[j].errors = 3 /\ files[k].errors = 0
    /\ dashboardStats.filesWithErrors = 1
    /\ dashboardStats.totalErrors = 3
    /\ dashboardStats.totalFiles = 2

\* The per-file earliest (latest) values that are present.
PresentEarliest(fs) ==
    {fs[k].timestampMetadata.earliest :
         k \in {j \in 1..Len(fs) : fs[j].timestampMetadata.earliest # Null}}

PresentLatest(fs) ==
    {fs[k].timestampMetadata.latest :
         k \in {j \in 1..Len(fs) : fs[j].timestampMetadata.latest # Null}}

\* C16: the global earliest is the minimum of the per-file earliest values
\* that are present and the global latest the maximum of the per-file
\* latest values that are present; an absent value takes no part, and the
\* global value is absent exactly when every file's value is.
C16_GlobalRangeOverPresentValues ==
    /\ (dashboardStats.dateRange.earliest = Null) = (PresentEarliest(files) = {})
    /\ (dashboardStats.dateRange.latest = Null) = (PresentLatest(files) = {})
    /\ PresentEarliest(files) # {} =>
           IsMinimumOf(dashboardStats.dateRange.earliest, PresentEarliest(files))
    /\ PresentLatest(files) # {} =>
           IsMaximumOf(dashboardStats.dateRange.latest, PresentLatest(files))

\* A file without timestamps follows a file with timestamps, and the
\* global range is that of the first file.
C16_Witness ==
    /\ Len(files) = 2
    /\ files[1].timestampMetadata.earliest # Null
    /\ files[2].timestampMetadata.earliest = Null
    /\ files[2].timestampMetadata.latest = Null
    /\ dashboardStats.dateRange.earliest = files[1].timestampMetadata.earliest
    /\ dashboardStats.dateRange.latest = files[1].timestampMetadata.latest
    /\ DateLess(dashboardStats.dateRange.earliest, dashboardStats.dateRange.latest)

\* Two files with timestamps, the later file holding the earlier instant.
C16_WitnessTwoPresent ==
    /\ Len(files) = 2
    /\ files[1].timestampMetadata.earliest # Null
    /\ files[2].timestampMetadata.earliest # Null
    /\ DateLess(files[2].timestampMetadata.earliest, files[1].timestampMetadata.earliest)
    /\ dashboardStats.dateRange.earliest = files[2].timestampMetadata.earliest
    /\ dashboardStats.dateRange.latest = files[1].timestampMetadata.latest

\* The sum of totalTimestamps over the files at the positions S.
RECURSIVE SumTimestampsAt(_, _)
SumTimestampsAt(fs, S) ==
    IF S = {} THEN 0
    ELSE LET k == CHOOSE j \in S : TRUE
         IN  fs[k].timestampMetadata.totalTimestamps + SumTimestampsAt(fs, S \ {k})

\* The least (greatest) instant of S, absent when S is empty.
MinimumOrAbsent(S) == IF S = {} THEN Null ELSE CHOOSE t \in S : IsMinimumOf(t, S)

MaximumOrAbsent(S) == IF S = {} THEN Null ELSE CHOOSE t \in S : IsMaximumOf(t, S)

\* The aggregate of a collection.
AggregateOf(fs) ==
    [totalFiles        |-> Len(fs),
     filesWithErrors   |-> PositiveAt(fs, "errors"),
     filesWithWarnings |-> PositiveAt(fs, "warnings"),
     filesWithSuccess  |-> PositiveAt(fs, "success"),
     totalErrors       |-> SumAt(fs, "errors", 1..Len(fs)),
     totalWarnings     |-> SumAt(fs, "warnings", 1..Len(fs)),
     totalSuccess      |-> SumAt(fs, "success", 1..Len(fs)),
     totalTimestamps   |-> SumTimestampsAt(fs, 1..Len(fs)),
     dateRange         |-> [earliest |-> MinimumOrAbsent(PresentEarliest(fs)),
                            latest   |-> MaximumOrAbsent(PresentLatest(fs))]]

\* C17: in every state of the session the dashboard stats are the
\* aggregate of the current full collection, whatever the category filter,
\* the search query and the datetime bounds are and whatever files were
\* deleted before.
C17_StatsFollowCollection == dashboardStats = AggregateOf(files)

\* All three filter inputs are set and hide a file of the collection, and
\* the stats still count every file of the collection.
C17_Witness ==
    /\ Len(files) = 2
    /\ selectedFilter = "error"
    /\ searchQuery = "disk"
    /\ startDateTime # Null
    /\ Len(filteredView) < Len(files)
    /\ dashboardStats.totalFiles = 2
    /\ dashboardStats # dashboardStatsOf(filteredView)

\* C20: in every state of the session no two files of the collection have
\* the same id, files read within the same millisecond and files uploaded
\* twice under one name included.
C20_IdsUnique ==
    \A j \in 1..Len(files) : \A k \in 1..Len(files) :
        j # k => files[j].id # files[k].id

-----------------------------------------------------------------------------
(* Properties of the filter specification *)

DateFilterActive == startDateTime # Null \/ endDateTime # Null

\* start <= t <= end, an absent bound imposing nothing.
WithinBounds(t) ==
    /\ startDateTime # Null => AtOrAfter(t, startDateTime)
    /\ endDateTime # Null => AtOrAfter(endDateTime, t)

\* The entries of a stored file that the datetime stage lets through.
SurvivingEntries(file) ==
    IF DateFilterActive
    THEN {k \in 1..Len(file.entries) :
              file.entries[k].timestamp # Null /\ WithinBounds(file.entries[k].timestamp)}
    ELSE 1..Len(file.entries)

SurvivesDatetime(file) == DateFilterActive => SurvivingEntries(file) # {}

IdsOf(fs) == {fs[k].id : k \in 1..Len(fs)}

\* The record of the view that stems from the stored file.
Shown(view, file) == view[CHOOSE k \in 1..Len(view) : view[k].id = file.id]

HasEntry(shown, entry) == \E j \in 1..Len(shown.entries) : shown.entries[j] = entry

\* C3: with a datetime bound set, an entry that has a timestamp is kept by
\* the datetime stage exactly when start <= timestamp <= end (an absent bound
\* imposes nothing), the two bounds included: no entry outside the bounds is
\* in the view, every entry within them is in its file's record of the view,
\* and that record exists whenever the later stages are idle.
C3_InclusiveBounds ==
    DateFilterActive =>
        LET view == filteredView
        IN  \A f \in 1..Len(files) : \A k \in 1..Len(files[f].entries) :
                LET file  == files[f]
                    entry == file.entries[k]
                    kept  == file.id \in IdsOf(view) /\ HasEntry(Shown(view, file), entry)
                IN  entry.timestamp # Null =>
                        /\ kept => WithinBounds(entry.timestamp)
                        /\ WithinBounds(entry.timestamp) /\ file.id \in IdsOf(view) => kept
                        /\ WithinBounds(entry.timestamp) /\ selectedFilter = "all"
                               /\ searchQuery = "" => kept

\* Both bounds are set, an entry stamped exactly at them is shown and another
\* stamped entry of the same file is not.
C3_Witness ==
    /\ startDateTime # Null
    /\ endDateTime # Null
    /\ LET view == filteredView
       IN  \E v \in 1..Len(view) :
               /\ \E j \in 1..Len(view[v].entries) :
                      /\ view[v].entries[j].timestamp = startDateTime
                      /\ view[v].entries[j].timestamp = endDateTime
               /\ \E f \in 1..Len(files) :
                      /\ files[f].id = view[v].id
                      /\ \E k \in 1..Len(files[f].entries) :
                             /\ files[f].entries[k].timestamp # Null
                             /\ ~HasEntry(view[v], files[f].entries[k])

\* C4: while a datetime bound is set no entry without a timestamp is in any
\* file of the view; while none is set the files of the view have all their
\* entries, those without a timestamp included.
C4_UnstampedDroppedOnlyWhenActive ==
    LET view == filteredView
    IN  \A v \in 1..Len(view) :
            IF DateFilterActive
            THEN \A j \in 1..Len(view[v].entries) : view[v].entries[j].timestamp # Null
            ELSE \E f \in 1..Len(files) :
                     files[f].id = view[v].id /\ view[v].entries = files[f].entries

\* A bound is set and a file of the view has lost an entry without timestamp.
C4_Witness ==
    /\ DateFilterActive
    /\ LET view == filteredView
       IN  \E f \in 1..Len(files) :
               /\ files[f].id \in IdsOf(view)
               /\ \E k \in 1..Len(files[f].entries) :
                      /\ files[f].entries[k].timestamp = Null
                      /\ ~HasEntry(Shown(view, files[f]), files[f].entries[k])

\* fs is an order-preserving sub-sequence of gs (by file id).
IsSubSequence(fs, gs) ==
    /\ IdsOf(fs) \subseteq IdsOf(gs)
    /\ \A a, b \in 1..Len(fs) :
           a < b => \E i, j \in 1..Len(gs) :
                        i < j /\ gs[i].id = fs[a].id /\ gs[j].id = fs[b].id

\* C5: with a datetime bound set, a file none of whose entries passes the
\* datetime test is absent from the view whatever the category filter and
\* the search query are, and every file of the view has at least one entry;
\* the view is always an order-preserving sub-sequence of the collection.
C5_EliminatedFilesStayOut ==
    LET view == filteredView
    IN  /\ DateFilterActive =>
               /\ \A f \in 1..Len(files) :
                      SurvivingEntries(files[f]) = {} => files[f].id \notin IdsOf(view)
               /\ \A v \in 1..Len(view) : Len(view[v].entries) > 0
        /\ IsSubSequence(view, files)

\* The query occurs in the name of a file that the datetime stage removed,
\* and the view shows another file.
C5_Witness ==
    /\ DateFilterActive
    /\ searchQuery # ""
    /\ LET view == filteredView
       IN  /\ Len(view) > 0
           /\ \E f \in 1..Len(files) :
                  /\ includes(toLowerCase(files[f].name), toLowerCase(searchQuery))
                  /\ SurvivingEntries(files[f]) = {}
                  /\ files[f].id \notin IdsOf(view)

\* The number of entries of the selected category in the whole file.
FullFileCount(file, filter) == CountOfType(file, filter)

\* The text occurs in the other as a literal substring, letter case ignored.
ContainsIgnoringCase(text, query) == includes(toLowerCase(text), toLowerCase(query))

\* The query occurs in the file's name or in a line that survived stage 1.
QueryFound(file) ==
    \/ ContainsIgnoringCase(file.name, searchQuery)
    \/ \E k \in SurvivingEntries(file) : ContainsIgnoringCase(file.entries[k].line, searchQuery)

\* C6: with a category selected, a file that survived the datetime stage
\* passes the category stage exactly when the whole file, as analyzed, has an
\* entry of that category, whether or not such an entry survived; the
\* counters of a file of the view are those of the stored file.
C6_GateUsesFullFileCounts ==
    LET view == filteredView
    IN  /\ selectedFilter # "all" =>
               \A f \in 1..Len(files) :
                   SurvivesDatetime(files[f]) =>
                       /\ files[f].id \in IdsOf(view)
                              => FullFileCount(files[f], selectedFilter) > 0
                       /\ FullFileCount(files[f], selectedFilter) > 0 /\ searchQuery = ""
                              => files[f].id \in IdsOf(view)
        /\ \A v \in 1..Len(view) : \E f \in 1..Len(files) :
               /\ files[f].id = view[v].id
               /\ view[v].errors = files[f].errors
               /\ view[v].warnings = files[f].warnings
               /\ view[v].success = files[f].success

\* A file is shown under a category none of its surviving entries has.
C6_Witness ==
    /\ selectedFilter # "all"
    /\ DateFilterActive
    /\ LET view == filteredView
       IN  \E v \in 1..Len(view) :
               /\ \A j \in 1..Len(view[v].entries) : view[v].entries[j].type # selectedFilter
               /\ \E f \in 1..Len(files) :
                      files[f].id = view[v].id /\ Len(view[v].entries) < Len(files[f].entries)

\* The file of C7: two entries, an info entry inside the datetime range and
\* an error entry outside it.
InfoInsideErrorOutside(file) ==
    /\ DateFilterActive
    /\ Len(file.entries) = 2
    /\ \E a, b \in 1..2 :
           /\ file.entries[a].type = "info"
           /\ file.entries[a].timestamp # Null
           /\ WithinBounds(file.entries[a].timestamp)
           /\ file.entries[b].type = "error"
           /\ file.entries[b].timestamp # Null
           /\ ~WithinBounds(file.entries[b].timestamp)

\* C7 as stated: such a file is excluded when the category filter is error.
C7_FileExcluded ==
    \A f \in 1..Len(files) :
        InfoInsideErrorOutside(files[f]) /\ selectedFilter = "error" /\ searchQuery = ""
            => files[f].id \notin IdsOf(filteredView)

\* C7, amended: for a file with exactly one entry of category info inside
\* the active datetime range and one entry of category error outside it, the
\* filter with that range, category error and no search query keeps the file
\* in the result, with the info entry as its only entry.
C7_FileKeptWithInfoEntry ==
    \A f \in 1..Len(files) :
        InfoInsideErrorOutside(files[f]) /\ selectedFilter = "error" /\ searchQuery = ""
            => LET view == filteredView
               IN  /\ files[f].id \in IdsOf(view)
                   /\ Len(Shown(view, files[f]).entries) = 1
                   /\ Shown(view, files[f]).entries[1].type = "info"
                   /\ HasEntry(files[f], Shown(view, files[f]).entries[1])

C7_Witness ==
    /\ selectedFilter = "error"
    /\ searchQuery = ""
    /\ \E f \in 1..Len(files) :
           /\ InfoInsideErrorOutside(files[f])
           /\ files[f].id \in IdsOf(filteredView)

\* C8: with a query, a file that passed the datetime and category stages is
\* in the view exactly when the query occurs, letter case ignored, in its
\* name or in the line of one of its surviving entries; without a query
\* every such file is in the view.
C8_SearchOverSurvivingEntries ==
    LET view == filteredView
    IN  \A f \in 1..Len(files) :
            /\ SurvivesDatetime(files[f])
            /\ selectedFilter # "all" => FullFileCount(files[f], selectedFilter) > 0
            => (files[f].id \in IdsOf(view) <=> (searchQuery = "" \/ QueryFound(files[f])))

\* A file that passed the first two stages is out because its only lines
\* with the query were removed by the datetime stage, and another file is in
\* by its name, spelled in another case than the query.
C8_Witness ==
    /\ searchQuery # ""
    /\ DateFilterActive
    /\ LET view == filteredView
       IN  /\ \E f \in 1..Len(files) :
                  /\ SurvivesDatetime(files[f])
                  /\ files[f].id \notin IdsOf(view)
                  /\ \E k \in 1..Len(files[f].entries) :
                         ContainsIgnoringCase(files[f].entries[k].line, searchQuery)
           /\ \E v \in 1..Len(view) :
                  /\ ContainsIgnoringCase(view[v].name, searchQuery)
                  /\ ~includes(view[v].name, searchQuery)

\* C18: filtering is idempotent: the filter applied with the same category
\* filter, search text, start and end to its own result gives that result
\* again, the same files in the same order with the same entries.
C18_FilterIdempotent ==
    filteredFiles(filteredView, selectedFilter, searchQuery, startDateTime, endDateTime)
        = filteredView

\* The three stages are active, a file is left out of the view and a file
\* of the view has lost an entry.
C18_Witness ==
    /\ DateFilterActive
    /\ selectedFilter # "all"
    /\ searchQuery # ""
    /\ Len(filteredView) > 0
    /\ Len(filteredView) < Len(files)
    /\ \E k \in 1..Len(files) :
           /\ files[k].id \in IdsOf(filteredView)
           /\ Len(Shown(filteredView, files[k]).entries) < Len(files[k].entries)

\* Every entry of the file has a timestamp whose text is of the ISO shape.
AllEntriesIsoStamped(file) ==
    /\ Len(file.entries) > 0
    /\ \A j \in 1..Len(file.entries) :
           /\ file.entries[j].timestamp # Null
           /\ IsoMatchLen(file.entries[j].originalTimestamp, 1)
                = Len(file.entries[j].originalTimestamp)

\* C19: with no datetime bound, category "all" and an empty search query
\* the view is the collection itself, every file with all its entries in
\* their order; with no datetime bound the records of the view are the
\* stored records whatever the other two inputs are.
C19_NoBoundsReturnsEverything ==
    ~DateFilterActive =>
        /\ \A k \in 1..Len(filteredView) :
               \E f \in 1..Len(files) : filteredView[k] = files[f]
        /\ selectedFilter = "all" /\ searchQuery = "" => filteredView = files

\* Nothing is set, and the view holds a file whose lines all carry ISO
\* timestamps beside a file with a line without a timestamp.
C19_Witness ==
    /\ ~DateFilterActive
    /\ selectedFilter = "all"
    /\ searchQuery = ""
    /\ Len(filteredView) = 2
    /\ AllEntriesIsoStamped(filteredView[1])
    /\ Len(filteredView[1].entries) = 2
    /\ filteredView[1].entries = files[1].entries
    /\ \E j \in 1..Len(filteredView[2].entries) :
           filteredView[2].entries[j].timestamp = Null

-----------------------------------------------------------------------------
(* The extractor's result and the entry made of it *)

\* The entry has a valid parsed timestamp and the text it was parsed from,
\* or neither of the two.
StampedOrBare(entry) ==
    \/ /\ IsValidDate(entry.timestamp)
       /\ entry.originalTimestamp # Undefined
       /\ entry.originalTimestamp # ""
    \/ /\ entry.timestamp = Null
       /\ entry.originalTimestamp = Undefined

\* C28: what extractTimestampFromLine returns for a line is nothing or a
\* result whose parsed instant is a valid Date and whose original text is
\* the matched text; and the entry analysis makes of a non-blank line and
\* that result has the parsed timestamp and the original text, or neither.
C28_TimestampAndTextTogether ==
    pc # "line" =>
        /\ lineOut # Null =>
               /\ IsValidDate(lineOut.parsed)
               /\ includes(line, lineOut.original)
               /\ lineOut.original # ""
        /\ trim(line) # "" => StampedOrBare(entryOf(line, 1, classify(line), lineOut))

\* The line starts with text of the ISO shape that names no instant and
\* holds no other timestamp: the extractor returned nothing.
C28_Witness ==
    /\ pc = "classified"
    /\ Len(line) > 19
    /\ SubSeq(line, 1, 19) = "2024-13-45T99:99:99"
    /\ lineOut = Null

\* The same start followed by a timestamp of another shape: the result is
\* that timestamp.
C28_WitnessNextShape ==
    /\ pc = "classified"
    /\ Len(line) > 19
    /\ SubSeq(line, 1, 19) = "2024-13-45T99:99:99"
    /\ lineOut # Null
    /\ lineOut.original = "01/02/2023 03:04:05"

-----------------------------------------------------------------------------
(* Properties of the upload specification *)

\* How many elements of the sequence carry the name.
CountNamed(seq, name) == Cardinality({k \in 1..Len(seq) : seq[k].name = name})

UploadNames == {u.name : u \in UploadVocabulary}

Without(seq, i) == SubSeq(seq, 1, i - 1) \o SubSeq(seq, i + 1, Len(seq))

\* The step is the completion of the i-th pending read: one record, that of
\* the file read, is put behind the records the collection held.
CompletionAppends(i) ==
    /\ reading' = Without(reading, i)
    /\ Len(files') = Len(files) + 1
    /\ SubSeq(files', 1, Len(files)) = files
    /\ files'[Len(files')].name = reading[i].name
    /\ files'[Len(files')].content = reading[i].content

\* Once the FileList was dropped, each of its accepted files is either being
\* read or in the collection, as often as it was selected.
NoRecordLostOrDuplicated ==
    pc = "session" =>
        \A name \in UploadNames :
            CountNamed(files, name) + CountNamed(reading, name)
                = CountNamed(SelectSeq(fileList, isAccepted), name)

\* C21: every read completion appends exactly the record of the file read
\* at the end of the collection and leaves the records before it as they
\* were, so the collection is in completion order; and every accepted file
\* of the upload is at all times either pending or in the collection exactly
\* as often as it was selected: none lost, duplicated or overwritten.
C21_CompletionsAppendInOrder ==
    /\ []NoRecordLostOrDuplicated
    /\ [][Len(reading') < Len(reading) =>
              \E i \in 1..Len(reading) : CompletionAppends(i)]_vars

\* Two different accepted files were uploaded together and all reads
\* completed, the second file's first: the collection is in the reverse of
\* the upload order.
C21_Witness ==
    /\ Len(fileList) = 2
    /\ isAccepted(fileList[1]) /\ isAccepted(fileList[2])
    /\ fileList[1].name # fileList[2].name
    /\ reading = <<>>
    /\ Len(files) = 2
    /\ files[1].name = fileList[2].name
    /\ files[2].name = fileList[1].name

-----------------------------------------------------------------------------
(* Properties of the card specification *)

\* The records of the collection other than those of the id, in their order.
RecordsWithout(id) == SelectSeq(files, LAMBDA f : f.id # id)

\* C25: a step of the session leaves the collection as it is, or puts one new
\* record behind the unchanged records (a read completion), or removes the
\* record of one id as a whole, the others staying unchanged and in order
\* (deleteFile), or removes every record (clearAllFiles); a filter change or
\* an expansion toggle is of the first kind, a read completion never of the
\* last two, and a deletion takes the deleted id's expansion with it.
C25_RecordsChangeOnlyByDeletion ==
    /\ [][\/ files' = files
           \/ /\ Len(files') = Len(files) + 1
              /\ SubSeq(files', 1, Len(files)) = files
              /\ Len(reading') = Len(reading) - 1
           \/ /\ reading' = reading
              /\ \E id \in IdsOf(files) :
                     /\ files' = RecordsWithout(id)
                     /\ expandedFiles' = expandedFiles \ {id}
           \/ /\ reading' = reading
              /\ files' = <<>>
              /\ expandedFiles' = expandedFiles]_vars
    /\ [][selectedFilter' # selectedFilter => files' = files]_vars
    /\ [][(expandedFiles' # expandedFiles /\ Len(files') = Len(files))
              => files' = files]_vars
    /\ [][reading' # reading => SubSeq(files', 1, Len(files)) = files]_vars

\* The collection holds two records of different ids, the second one
\* expanded, under the error filter: a deletion, a toggle, a filter change
\* and Clear All can all act on it.
C25_Witness ==
    /\ Len(files) = 2
    /\ files[1].id # files[2].id
    /\ expandedFiles = {files[2].id}
    /\ selectedFilter = "error"
    /\ Len(files[1].entries) > 1

\* C30: in every state reached by read completions, expansion toggles,
\* deleteFile and clearAllFiles, every id of the expanded set is the id of a
\* file of the collection.
C30_ExpandedAreCurrent ==
    \A id \in expandedFiles : \E k \in 1..Len(files) : files[k].id = id

\* C22: a started read is never cancelled (a step that removes records,
\* Clear All or a deletion, leaves the pending reads as they are), and,
\* reads completing eventually, every accepted file whose read is pending
\* leads to a state where its analyzed record is in the collection.
C22_StartedReadsAppend ==
    /\ [][Len(files') < Len(files) => reading' = reading]_vars
    /\ \A u \in SessionUploads :
           (CountNamed(reading, u.name) > 0)
               ~> (\E k \in 1..Len(files) :
                       /\ files[k].name = u.name
                       /\ files[k].content = u.content
                       /\ files[k] = analyzeLogContent(u.content, u.name, files[k].id))

\* A read is pending while the collection is empty and the category filter,
\* which only a session with files can set, is on: the collection was
\* emptied by Clear All or a deletion, and the read goes on.
C22_Witness ==
    /\ reading # <<>>
    /\ files = <<>>
    /\ selectedFilter = "error"

\* The file's declared type is text/plain or its name ends in .log or .txt.
Supported(file) ==
    \/ file.type = "text/plain"
    \/ \E k \in 1..Len(file.name) :
           SubSeq(file.name, k, Len(file.name)) \in {".log", ".txt"}

SupportedOf(list) == {k \in 1..Len(list) : Supported(list[k])}

\* C23: the reads started for a FileList are those of its supported files,
\* all of them and in the order of the list, whatever unsupported files stand
\* between them; only supported files are ever pending, every record of the
\* collection is that of a supported file of the list, and when all reads
\* are done the collection has one record per supported file.
C23_OnlySupportedFilesRead ==
    /\ [](\A k \in 1..Len(reading) : Supported(reading[k]))
    /\ [](\A k \in 1..Len(files) :
              \E j \in SupportedOf(fileList) :
                  /\ fileList[j].name = files[k].name
                  /\ fileList[j].content = files[k].content)
    /\ []((pc = "session" /\ reading = <<>>) =>
              Len(files) = Cardinality(SupportedOf(fileList)))
    /\ [][(pc = "drop" /\ pc' = "session") =>
              /\ Len(reading') = Cardinality(SupportedOf(fileList))
              /\ \A k \in 1..Len(reading') :
                     \E j \in SupportedOf(fileList) :
                         /\ reading'[k] = fileList[j]
                         /\ Cardinality({i \in SupportedOf(fileList) : i <= j}) = k
              /\ files' = files]_vars

\* An unsupported file came first in the FileList and a file supported by
\* its declared type alone second: the collection holds the second, read
\* and analyzed, and nothing else.
C23_Witness ==
    /\ Len(fileList) = 2
    /\ ~Supported(fileList[1])
    /\ fileList[2].name = "README"
    /\ reading = <<>>
    /\ Len(files) = 1
    /\ files[1].name = "README"
    /\ files[1].success = 1

-----------------------------------------------------------------------------
(* The stored collection under the filter *)

\* The stored file is what the analysis of its content gave: the complete
\* entry list, the counts and the timestamp summary.
AsAnalyzed(file) == file = analyzeLogContent(file.content, file.name, file.id)

\* C24: whatever the filter state, every stored file is as the analysis
\* made it; no change of the filter state (each followed by the computation
\* of the view) changes the collection; and when the datetime bounds are
\* cleared the view restricted by nothing else is the stored collection,
\* every file with all of its entries.
C24_FilterLeavesCollection ==
    /\ [](\A k \in 1..Len(files) : AsAnalyzed(files[k]))
    /\ [][pc = "session" => files' = files]_vars
    /\ [][(DateFilterActive /\ startDateTime' = Null /\ endDateTime' = Null) =>
              filteredFiles(files', "all", "", startDateTime', endDateTime') = files]_vars

\* Both bounds are set and the view shows a file with fewer entries than
\* the stored file has; the stored file has its two entries.
C24_Witness ==
    /\ startDateTime # Null
    /\ endDateTime # Null
    /\ \E k \in 1..Len(files) :
           /\ Len(files[k].entries) = 2
           /\ files[k].id \in IdsOf(filteredView)
           /\ Len(Shown(filteredView, files[k]).entries) = 1

\* C26: a step that takes a set bound away takes both away, leaving the
\* category filter, the search query and the collection as they were; no
\* step takes one set bound away while the other bound stays or becomes set.
C26_BoundsClearedTogether ==
    [][((startDateTime # Null /\ startDateTime' = Null)
           \/ (endDateTime # Null /\ endDateTime' = Null)) =>
           /\ startDateTime' = Null
           /\ endDateTime' = Null
           /\ selectedFilter' = selectedFilter
           /\ searchQuery' = searchQuery
           /\ files' = files]_vars

\* Both bounds are set while a category filter and a search are on and the
\* view shows a file: the Clear button of the picker is on the screen.
C26_Witness ==
    /\ startDateTime # Null
    /\ endDateTime # Null
    /\ selectedFilter = "error"
    /\ searchQuery = "disk"
    /\ Len(filteredView) > 0
    /\ ENABLED clearDateTimeFilter

\* Both bounds are set and the start is later than the end.
RangeInverted ==
    /\ startDateTime # Null
    /\ endDateTime # Null
    /\ DateLess(endDateTime, startDateTime)

\* C29: while both bounds are set with the start later than the end, the
\* filtered view is empty, whatever the collection, the category filter and
\* the search query; the bounds stay as they were set.
C29_InvertedRangeShowsNothing ==
    RangeInverted => filteredView = <<>>

\* The range is inverted, no category or search restricts the view, and a
\* stored entry has its timestamp between the end and the start: the bounds
\* taken the other way round would show it.
C29_Witness ==
    /\ RangeInverted
    /\ selectedFilter = "all"
    /\ searchQuery = ""
    /\ Len(files) = 2
    /\ \E k \in 1..Len(files) : \E j \in 1..Len(files[k].entries) :
           /\ files[k].entries[j].timestamp # Null
           /\ ~DateLess(files[k].entries[j].timestamp, endDateTime)
           /\ ~DateLess(startDateTime, files[k].entries[j].timestamp)

-----------------------------------------------------------------------------
(* Properties of the picker specification *)

SameCalendarDay(date, other) ==
    /\ getFullYear(date) = getFullYear(other)
    /\ getMonth(date) = getMonth(other)
    /\ getDate(date) = getDate(other)

\* Picking the day when the bound has the previous value gives the day with
\* the time of day of the previous value, or of the clock when the bound is
\* absent.
PickKeepsDay(previous, date) ==
    /\ SameCalendarDay(withPickedDate(previous, date), date)
    /\ withPickedDate(previous, date).ms
           = (IF previous # Null THEN previous ELSE now).ms

\* C27: whatever value a bound has, and whatever the clock reads when the
\* bound is absent, picking a calendar day D for it gives a bound with D's
\* year, month and day and the previous time of day.
C27_PickedDayKept ==
    controlsShown =>
        \A date \in PickerDays :
            /\ PickKeepsDay(startDateTime, date)
            /\ PickKeepsDay(endDateTime, date)

====
